---- MODULE Spec2Model ----
(***************************************************************************)
(* gitp: the `commit` command of src/index.js.                             *)
(*                                                                         *)
(* Text is modelled as a sequence of one-character strings, so that        *)
(* split, trim, startsWith and the two regular expressions of index.js are *)
(* computed character by character.                                        *)
(***************************************************************************)
EXTENDS Integers, Sequences, FiniteSets, TLC

----------------------------------------------------------------------------
(* Text helpers (JavaScript String methods used by index.js)               *)

EmptyStr == <<>>

\* characters String.prototype.trim removes and \s matches
WhiteSpace == {" ", "\t", "\r", "\n"}

Digits == {"0", "1", "2", "3", "4", "5", "6", "7", "8", "9"}

Letters ==
    {"a", "b", "c", "d", "e", "f", "g", "h", "i", "j", "k", "l", "m",
     "n", "o", "p", "q", "r", "s", "t", "u", "v", "w", "x", "y", "z",
     "A", "B", "C", "D", "E", "F", "G", "H", "I", "J", "K", "L", "M",
     "N", "O", "P", "Q", "R", "S", "T", "U", "V", "W", "X", "Y", "Z"}

\* [A-Za-z0-9]
Alnum == Letters \cup Digits

\* \w
WordChars == Alnum \cup {"_"}

\* s.startsWith(p)
StartsWith(s, p) == Len(s) >= Len(p) /\ SubSeq(s, 1, Len(p)) = p

\* s.includes(p)
Includes(s, p) ==
    \E i \in 1..(Len(s) - Len(p) + 1) : SubSeq(s, i, i + Len(p) - 1) = p

\* s.substring(i - 1): the suffix of s from the 1-based position i
From(s, i) == SubSeq(s, i, Len(s))

\* s.trim()
Trim(s) ==
    LET keep == {i \in 1..Len(s) : s[i] \notin WhiteSpace}
    IN  IF keep = {} THEN EmptyStr
        ELSE LET lo == CHOOSE i \in keep : \A j \in keep : i <= j
                 hi == CHOOSE i \in keep : \A j \in keep : j <= i
             IN  SubSeq(s, lo, hi)

\* s.split('\n'): always at least one piece
RECURSIVE Split(_)
Split(s) ==
    LET nl == {i \in 1..Len(s) : s[i] = "\n"}
    IN  IF nl = {} THEN <<s>>
        ELSE LET i == CHOOSE k \in nl : \A j \in nl : k <= j
             IN  <<SubSeq(s, 1, i - 1)>> \o Split(From(s, i + 1))

\* the length of the longest run of characters of set cs that starts at i
RECURSIVE RunLen(_, _, _)
RunLen(s, i, cs) ==
    IF i <= Len(s) /\ s[i] \in cs THEN 1 + RunLen(s, i + 1, cs) ELSE 0

\* the decimal digits of a natural number, as text
RECURSIVE NumStr(_)
NumStr(n) ==
    LET d == <<"0", "1", "2", "3", "4", "5", "6", "7", "8", "9">>
    IN  IF n < 10 THEN <<d[n + 1]>> ELSE NumStr(n \div 10) \o <<d[(n % 10) + 1]>>

----------------------------------------------------------------------------
(* Constant texts of index.js                                              *)

CommitMessagePrefix ==
    <<"C", "O", "M", "M", "I", "T", "_", "M", "E", "S", "S", "A", "G", "E", ":">>

CommitDescriptionPrefix ==
    <<"C", "O", "M", "M", "I", "T", "_", "D", "E", "S", "C", "R", "I", "P", "T", "I", "O", "N", ":">>

NoVerifySuffix == <<" ", "-", "-", "n", "o", "-", "v", "e", "r", "i", "f", "y">>

\* the alternation (?:feature|bugfix|hotfix|release)
BranchPrefixes ==
    { <<"f", "e", "a", "t", "u", "r", "e">>,
      <<"b", "u", "g", "f", "i", "x">>,
      <<"h", "o", "t", "f", "i", "x">>,
      <<"r", "e", "l", "e", "a", "s", "e">> }

\* the loop ceiling of commitCommand
MaxAttempts == 10

----------------------------------------------------------------------------
(* shouldUseConventionalCommits                                            *)

\* The configured paths of the model are written in this dialect of
\* JavaScript regular expressions: literal characters, ".", "^", "$", and
\* the openers "(" and "[", which have no closer in the dialect and so make
\* `new RegExp` throw a SyntaxError.
RegexValid(p) == \A k \in 1..Len(p) : p[k] \notin {"(", "["}

\* does pattern p, from its element k on, match s at position i?
RECURSIVE RegexMatchHere(_, _, _, _)
RegexMatchHere(p, k, s, i) ==
    IF k > Len(p) THEN TRUE
    ELSE CASE p[k] = "^" -> i = 1 /\ RegexMatchHere(p, k + 1, s, i)
           [] p[k] = "$" -> i = Len(s) + 1 /\ RegexMatchHere(p, k + 1, s, i)
           [] p[k] = "." -> /\ i <= Len(s)
                            /\ s[i] \notin {"\n", "\r"}
                            /\ RegexMatchHere(p, k + 1, s, i + 1)
           [] OTHER      -> /\ i <= Len(s)
                            /\ s[i] = p[k]
                            /\ RegexMatchHere(p, k + 1, s, i + 1)

\* new RegExp(p).test(s)
RegexTest(p, s) == \E i \in 1..(Len(s) + 1) : RegexMatchHere(p, 1, s, i)

\* the catch branch left out: an invalid expression matches nothing
EntryMatches_NoFallback(path, currentPath) ==
    RegexValid(path) /\ RegexTest(path, currentPath)

\* try { return new RegExp(item.path).test(currentPath) }
\* catch (error) { return currentPath.includes(item.path) }
EntryMatches(path, currentPath) ==
    IF RegexValid(path) THEN RegexTest(path, currentPath)
    ELSE Includes(currentPath, path)

\* credentials.useConventionalCommitsIn || []: the absent list and the
\* empty one are both <<>>
shouldUseConventionalCommits(currentPath, creds) ==
    \E k \in 1..Len(creds.useConventionalCommitsIn) :
        EntryMatches(creds.useConventionalCommitsIn[k].path, currentPath)

----------------------------------------------------------------------------
(* extractTicketFromBranch                                                 *)

\* Does /(?:feature|bugfix|hotfix|release)\/([A-Za-z0-9]+-\d+)/ match at i?
\* Both quantifiers are greedy and what follows each run is outside the
\* run's class, so the runs are the maximal ones.
BranchMatchesAt(b, i) ==
    \E p \in BranchPrefixes :
        /\ StartsWith(From(b, i), p \o <<"/">>)
        /\ LET j == i + Len(p) + 1
               n == RunLen(b, j, Alnum)
           IN  /\ n >= 1
               /\ j + n <= Len(b)
               /\ b[j + n] = "-"
               /\ RunLen(b, j + n + 1, Digits) >= 1

\* capture group 1 of the match that starts at i
BranchTicketAt(b, i) ==
    LET p == CHOOSE q \in BranchPrefixes : StartsWith(From(b, i), q \o <<"/">>)
        j == i + Len(p) + 1
        n == RunLen(b, j, Alnum)
        d == RunLen(b, j + n + 1, Digits)
    IN  SubSeq(b, j, j + n + d)

\* the path tried as a regular expression first, as the policy selector does
DefaultTicketFor_Regex(path, creds) ==
    LET list == creds.defaultTicketFor
        hits == {k \in 1..Len(list) :
                    IF RegexValid(list[k].path)
                    THEN RegexTest(list[k].path, path)
                    ELSE Includes(path, list[k].path)}
    IN  IF hits = {} THEN EmptyStr
        ELSE list[CHOOSE k \in hits : \A j \in hits : k <= j].ticket

\* (credentials.defaultTicketFor || []).find(item =>
\*     currentPath.includes(item.path))?.ticket || ''
DefaultTicketFor(path, creds) ==
    LET list == creds.defaultTicketFor
        hits == {k \in 1..Len(list) : Includes(path, list[k].path)}
    IN  IF hits = {} THEN EmptyStr
        ELSE list[CHOOSE k \in hits : \A j \in hits : k <= j].ticket

\* the configured default preferred to the ticket of the branch
extractTicketFromBranch_DefaultFirst(branchName, path, creds) ==
    LET at == {i \in 1..Len(branchName) : BranchMatchesAt(branchName, i)}
    IN  IF at # {} /\ DefaultTicketFor(path, creds) = EmptyStr
        THEN BranchTicketAt(branchName, CHOOSE i \in at : \A j \in at : i <= j)
        ELSE DefaultTicketFor(path, creds)

extractTicketFromBranch(branchName, path, creds) ==
    LET at == {i \in 1..Len(branchName) : BranchMatchesAt(branchName, i)}
    IN  IF at # {}
        THEN BranchTicketAt(branchName, CHOOSE i \in at : \A j \in at : i <= j)
        ELSE DefaultTicketFor(path, creds)

----------------------------------------------------------------------------
(* generateCommit: the response parser                                     *)

\* message.match(/^(\w+(?:\([^)]+\))?:)\s*(.+)$/): <<match[1], match[2]>>,
\* or <<>> when the message does not match
ConventionalMatch(message) ==
    LET n     == RunLen(message, 1, WordChars)
        open  == n + 1
        inner == IF open <= Len(message) /\ message[open] = "("
                 THEN RunLen(message, open + 1,
                             {message[x] : x \in 1..Len(message)} \ {")"})
                 ELSE 0
        close == open + inner + 1
        \* position of the ":" that ends match[1], 0 when there is none
        colon == IF n = 0 \/ open > Len(message) THEN 0
                 ELSE IF message[open] = ":" THEN open
                 ELSE IF /\ message[open] = "("
                         /\ inner >= 1
                         /\ close + 1 <= Len(message)
                         /\ message[close] = ")"
                         /\ message[close + 1] = ":"
                      THEN close + 1
                 ELSE 0
        rest  == From(message, colon + 1)
        ws    == RunLen(rest, 1, WhiteSpace)
        \* lengths \s* may take so that (.+)$ still matches
        ok    == {k \in 0..ws :
                     /\ Len(rest) - k >= 1
                     /\ \A x \in (k + 1)..Len(rest) : rest[x] \notin {"\n", "\r"}}
    IN  IF colon = 0 \/ ok = {} THEN <<>>
        ELSE LET k == CHOOSE a \in ok : \A c \in ok : c <= a
             IN  <<SubSeq(message, 1, colon), From(rest, k + 1)>>

\* the ticket put in front of the whole message although the pattern matched
TicketedMessage_AlwaysPrefix(message, ticket, useConventionalCommits) ==
    (IF Len(ticket) > 0 THEN ticket \o <<":", " ">> ELSE EmptyStr) \o message

\* the ticket dropped when the conventional pattern does not match
TicketedMessage_NoFallback(message, ticket, useConventionalCommits) ==
    IF useConventionalCommits /\ Len(ticket) > 0
    THEN LET match == ConventionalMatch(message)
         IN  IF match # <<>>
             THEN match[1] \o <<" ">> \o ticket \o <<" ">> \o match[2]
             ELSE message
    ELSE (IF Len(ticket) > 0 THEN ticket \o <<":", " ">> ELSE EmptyStr) \o message

\* the commitMessage assigned for one COMMIT_MESSAGE: line
TicketedMessage(message, ticket, useConventionalCommits) ==
    IF useConventionalCommits /\ Len(ticket) > 0
    THEN LET match == ConventionalMatch(message)
         IN  IF match # <<>>
             THEN match[1] \o <<" ">> \o ticket \o <<" ">> \o match[2]
             ELSE ticket \o <<":", " ">> \o message
    ELSE (IF Len(ticket) > 0 THEN ticket \o <<":", " ">> ELSE EmptyStr) \o message

\* commit.forEach(...) over the trimmed lines, from line k on
RECURSIVE ParseLines(_, _, _, _, _)
ParseLines(lines, k, acc, ticket, useConventionalCommits) ==
    IF k > Len(lines) THEN acc
    ELSE LET line == Trim(lines[k])
             next ==
                 IF StartsWith(line, CommitMessagePrefix)
                 THEN [acc EXCEPT !.commitMessage =
                          TicketedMessage(
                              Trim(From(line, Len(CommitMessagePrefix) + 1)),
                              ticket, useConventionalCommits)]
                 ELSE IF StartsWith(line, CommitDescriptionPrefix)
                 THEN [acc EXCEPT !.commitDescription =
                          Trim(From(line, Len(CommitDescriptionPrefix) + 1))]
                 ELSE acc
         IN  ParseLines(lines, k + 1, next, ticket, useConventionalCommits)

\* the { commitMessage, commitDescription } generateCommit returns for a
\* raw provider response
ParseResponse(result, ticket, useConventionalCommits) ==
    ParseLines(Split(result), 1,
               [commitMessage |-> EmptyStr, commitDescription |-> EmptyStr],
               ticket, useConventionalCommits)

----------------------------------------------------------------------------
(* contextGatherer: lock files and the changed files of a diff             *)

\* LOCK_FILE_PATTERNS: each is /<name>$/ with every "." escaped, so a test
\* of the end of the path; /cargo\.lock$/i ignores case
LOCK_FILE_PATTERNS ==
    << [name |-> <<"p", "a", "c", "k", "a", "g", "e", "-", "l", "o", "c", "k", ".", "j",
                  "s", "o", "n">>,
        ignoreCase |-> FALSE],
       [name |-> <<"y", "a", "r", "n", ".", "l", "o", "c", "k">>,
        ignoreCase |-> FALSE],
       [name |-> <<"p", "n", "p", "m", "-", "l", "o", "c", "k", ".", "y", "a", "m", "l">>,
        ignoreCase |-> FALSE],
       [name |-> <<"c", "o", "m", "p", "o", "s", "e", "r", ".", "l", "o", "c", "k">>,
        ignoreCase |-> FALSE],
       [name |-> <<"G", "e", "m", "f", "i", "l", "e", ".", "l", "o", "c", "k">>,
        ignoreCase |-> FALSE],
       [name |-> <<"P", "i", "p", "f", "i", "l", "e", ".", "l", "o", "c", "k">>,
        ignoreCase |-> FALSE],
       [name |-> <<"p", "o", "e", "t", "r", "y", ".", "l", "o", "c", "k">>,
        ignoreCase |-> FALSE],
       [name |-> <<"c", "a", "r", "g", "o", ".", "l", "o", "c", "k">>,
        ignoreCase |-> TRUE],
       [name |-> <<"g", "o", ".", "s", "u", "m">>,
        ignoreCase |-> FALSE],
       [name |-> <<"m", "i", "x", ".", "l", "o", "c", "k">>,
        ignoreCase |-> FALSE] >>

UpperCase ==
    <<"A", "B", "C", "D", "E", "F", "G", "H", "I", "J", "K", "L", "M",
      "N", "O", "P", "Q", "R", "S", "T", "U", "V", "W", "X", "Y", "Z">>

LowerCase ==
    <<"a", "b", "c", "d", "e", "f", "g", "h", "i", "j", "k", "l", "m",
      "n", "o", "p", "q", "r", "s", "t", "u", "v", "w", "x", "y", "z">>

\* s with its upper-case letters folded to lower case
ToLower(s) ==
    [k \in 1..Len(s) |->
        IF \E n \in 1..26 : UpperCase[n] = s[k]
        THEN LowerCase[CHOOSE n \in 1..26 : UpperCase[n] = s[k]]
        ELSE s[k]]

\* s.endsWith(p)
EndsWith(s, p) ==
    Len(s) >= Len(p) /\ SubSeq(s, Len(s) - Len(p) + 1, Len(s)) = p

\* pattern.test(filePath)
PatternTest(pattern, filePath) ==
    EndsWith(IF pattern.ignoreCase THEN ToLower(filePath) ELSE filePath,
             pattern.name)

\* the i flag of /cargo\.lock$/i left out
isLockFile_CaseSensitive(filePath) ==
    \E k \in 1..Len(LOCK_FILE_PATTERNS) :
        EndsWith(filePath, LOCK_FILE_PATTERNS[k].name)

\* LOCK_FILE_PATTERNS.some(pattern => pattern.test(filePath))
isLockFile(filePath) ==
    \E k \in 1..Len(LOCK_FILE_PATTERNS) :
        PatternTest(LOCK_FILE_PATTERNS[k], filePath)

DiffGit == <<"d", "i", "f", "f", " ", "-", "-", "g", "i", "t">>

\* where /b\/(.+)$/ can match in the line: at a "b/" followed by at least
\* one character, none of them a line terminator
MatchStarts(line) ==
    { i \in 1..(Len(line) - 2) :
         /\ line[i] = "b" /\ line[i + 1] = "/"
         /\ \A x \in (i + 2)..Len(line) : line[x] \notin {"\n", "\r"} }

\* line.match(/b\/(.+)$/) is not null
HasMatch(line) == MatchStarts(line) # {}

\* match[1]: the search takes the leftmost "b/", the group runs to the end
MatchGroup(line) ==
    LET i == CHOOSE a \in MatchStarts(line) : \A c \in MatchStarts(line) : a <= c
    IN  From(line, i + 2)

\* lines.join('\n')
RECURSIVE Join(_)
Join(lines) ==
    IF lines = <<>> THEN EmptyStr
    ELSE IF Len(lines) = 1 THEN lines[1]
    ELSE lines[1] \o <<"\n">> \o Join(Tail(lines))

\* the body of the loop of extractChangedFiles pushes match[1] for this line
PushesFile(line) ==
    /\ StartsWith(line, DiffGit)
    /\ HasMatch(line)
    /\ ~isLockFile(MatchGroup(line))

extractChangedFiles(diffText) ==
    LET headers == SelectSeq(Split(diffText), PushesFile)
    IN  [k \in 1..Len(headers) |-> MatchGroup(headers[k])]

\* the header line of a section whose post-change path is a lock file
LockHeader(line) ==
    StartsWith(line, DiffGit) /\ HasMatch(line) /\ isLockFile(MatchGroup(line))

\* skipCurrentFile is never reset
SkipAfter_NoReset(line, skipCurrentFile) ==
    skipCurrentFile \/ LockHeader(line)

\* skipCurrentFile after the loop body of filterLockFilesFromDiff has run
\* for this line
SkipAfter(line, skipCurrentFile) ==
    IF StartsWith(line, DiffGit) THEN LockHeader(line) ELSE skipCurrentFile

\* the for loop of filterLockFilesFromDiff: filteredLines for the lines
\* that remain
RECURSIVE FilterLines(_, _)
FilterLines(lines, skipCurrentFile) ==
    IF lines = <<>> THEN <<>>
    ELSE LET line == Head(lines)
             skip == SkipAfter(line, skipCurrentFile)
         IN  (IF skip THEN <<>> ELSE <<line>>) \o FilterLines(Tail(lines), skip)

filterLockFilesFromDiff(diffText) ==
    Join(FilterLines(Split(diffText), FALSE))

----------------------------------------------------------------------------
(* contextGatherer: gatherSmartContext                                     *)

\* const MAX_CONTEXT_SIZE = 50000
MAX_CONTEXT_SIZE == 50000

\* '\n... (context trimmed)'
TrimMarker ==
    <<"\n", ".", ".", ".", " ", "(", "c", "o", "n", "t", "e", "x", "t">>
       \o <<" ", "t", "r", "i", "m", "m", "e", "d", ")">>

\* path.basename(file): what follows the last "/"
BaseName(file) ==
    LET slashes == { i \in 1..Len(file) : file[i] = "/" }
    IN  IF slashes = {} THEN file
        ELSE From(file, (CHOOSE i \in slashes : \A j \in slashes : j <= i) + 1)

\* path.basename(file, path.extname(file)): the base name without what
\* follows its last ".", unless that "." is its first character
BaseNameNoExt(file) ==
    LET base == BaseName(file)
        dots == { i \in 2..Len(base) : base[i] = "." }
    IN  IF dots = {} THEN base
        ELSE SubSeq(base, 1, (CHOOSE i \in dots : \A j \in dots : j <= i) - 1)

\* /\.(ts|tsx|js|jsx)$/.test(file), and /\.(tsx?|jsx?)$/.test(file)
IsScriptFile(file) ==
    \E e \in { <<".", "t", "s">>, <<".", "t", "s", "x">>, <<".", "j", "s">>, <<".", "j", "s", "x">> } : EndsWith(file, e)

\* /\.java$/.test(file)
IsJavaFile(file) == EndsWith(file, <<".", "j", "a", "v", "a">>)

\* /\.(css|scss|sass|less)$/.test(file)
IsStyleFile(file) ==
    \E e \in { <<".", "c", "s", "s">>, <<".", "s", "c", "s", "s">>, <<".", "s", "a", "s", "s">>, <<".", "l", "e", "s", "s">> } : EndsWith(file, e)

\* A changed file f is described by its path f.file, by what safeReadFile
\* gives for it (f.content: "text", "empty" for '', "missing" for null), by
\* the number f.findings of characters of the summary the extraction
\* functions produce from its content, and by whether one of them raises an
\* error (f.throws).

\* contextSummary.join('\n') or javaContext.join('\n'): the findings
ContextSummary(f) == [n \in 1..f.findings |-> "x"]

\* `\n### Context for ${path.basename(file)}:\n${summary}`
ContextBlock(f) ==
    <<"\n", "#", "#", "#", " ", "C", "o", "n", "t", "e", "x", "t", " ", "f", "o", "r", " ">> \o BaseName(f.file)
        \o <<":", "\n">> \o ContextSummary(f)

\* the catch block loses what was gathered before the error
AfterError_Discard(contexts) == <<>>

\* catch (error) { logger(`Warning: ...`) }: contexts is left as it is
AfterError(contexts) == contexts

\* the for loop over changedFiles, from the k-th file on: the contexts
\* pushed, and whether an error left the loop
RECURSIVE GatherFiles(_, _, _)
GatherFiles(changedFiles, k, contexts) ==
    IF k > Len(changedFiles) THEN [contexts |-> contexts, error |-> FALSE]
    ELSE LET f == changedFiles[k]
         IN  IF ~(IsScriptFile(f.file) \/ IsJavaFile(f.file))
             THEN GatherFiles(changedFiles, k + 1, contexts)
             ELSE IF f.content # "text"
             THEN \* if (!content) continue
                  GatherFiles(changedFiles, k + 1, contexts)
             ELSE IF f.throws
             THEN [contexts |-> AfterError(contexts), error |-> TRUE]
             ELSE GatherFiles(changedFiles, k + 1,
                      IF f.findings > 0
                      THEN Append(contexts, ContextBlock(f))
                      ELSE contexts)

\* the style contexts: for each style file the first changed script file
\* whose path includes the style file's base name
StyleContexts(changedFiles) ==
    LET Component(s) ==
            { k \in 1..Len(changedFiles) :
                 /\ Includes(changedFiles[k].file, BaseNameNoExt(s.file))
                 /\ IsScriptFile(changedFiles[k].file) }
        Paired(s) == IsStyleFile(s.file) /\ Component(s) # {}
        styles == SelectSeq(changedFiles, Paired)
    IN  [n \in 1..Len(styles) |->
            <<"\n", "#", "#", "#", " ", "S", "t", "y", "l", "e", " ", "c", "o", "n", "t", "e", "x", "t", ":", "\n">>
               \o BaseName(styles[n].file)
               \o <<" ", "b", "e", "l", "o", "n", "g", "s", " ", "t", "o", " ">>
               \o BaseName(changedFiles[
                      CHOOSE k \in Component(styles[n]) :
                          \A j \in Component(styles[n]) : k <= j].file)]

\* the marker is added from 50,000 characters on
TrimContext_AtLimit(contextString) ==
    IF Len(contextString) >= MAX_CONTEXT_SIZE
    THEN SubSeq(contextString, 1, MAX_CONTEXT_SIZE) \o TrimMarker
    ELSE contextString

\* if (contextString.length > MAX_CONTEXT_SIZE)
\*     contextString = contextString.substring(0, MAX_CONTEXT_SIZE) + marker
TrimContext(contextString) ==
    IF Len(contextString) > MAX_CONTEXT_SIZE
    THEN SubSeq(contextString, 1, MAX_CONTEXT_SIZE) \o TrimMarker
    ELSE contextString

\* contexts when the try statement is left
GatheredContexts(changedFiles) ==
    LET loop == GatherFiles(changedFiles, 1, <<>>)
    IN  IF loop.error THEN loop.contexts
        ELSE loop.contexts \o StyleContexts(changedFiles)

\* gatherSmartContext(diff, changedFiles): the text returned, whether the
\* warning was logged, and whether an error reached the caller
gatherSmartContext(changedFiles) ==
    [ context |-> TrimContext(Join(GatheredContexts(changedFiles))),
      warned  |-> GatherFiles(changedFiles, 1, <<>>).error,
      threw   |-> FALSE ]

----------------------------------------------------------------------------
(* contextGatherer: findWhoImports                                         *)

\* A project tree has the directories d0 (the search directory '.'), d1,
\* d2, d3 and the files f1..f8; what fs.readdir gives for each directory,
\* in its order, is fixed:
\*     .  :  f1  d1  f5  d3  f8
\*     d1 :  f2  f3  d2            d2 : f4            d3 : f6  f7
\* tree.dirs[d] gives the name of d and whether it can be read, tree.files[f]
\* the extension of f, whether it can be read, and the import specifiers
\* extractImports finds in it.
DirSlots == {"d0", "d1", "d2", "d3"}

FileSlots == {"f1", "f2", "f3", "f4", "f5", "f6", "f7", "f8"}

DirEntries ==
    [ d0 |-> <<"f1", "d1", "f5", "d3", "f8">>,
      d1 |-> <<"f2", "f3", "d2">>,
      d2 |-> <<"f4">>,
      d3 |-> <<"f6", "f7">> ]

\* the names of the files, without extension: a, b, c, d, e, g, h, i
FileStem ==
    [ f1 |-> <<"a">>, f2 |-> <<"b">>, f3 |-> <<"c">>, f4 |-> <<"d">>,
      f5 |-> <<"e">>, f6 |-> <<"g">>, f7 |-> <<"h">>, f8 |-> <<"i">> ]

\* entry.name
EntryName(tree, e) ==
    IF e \in DirSlots THEN tree.dirs[e].name
    ELSE FileStem[e] \o tree.files[e].ext

\* path.join(dir, entry.name), the search directory being '.'
JoinPath(dir, name) == IF dir = <<".">> THEN name ELSE dir \o <<"/">> \o name

\* the directories are searched whatever their name
SkippedDirectory_None(name) == FALSE

\* ['node_modules', '.git', 'dist', 'build', 'coverage'].includes(entry.name)
SkippedDirectory(name) ==
    name \in { <<"n", "o", "d", "e", "_", "m", "o", "d", "u", "l", "e", "s">>,
               <<".", "g", "i", "t">>,
               <<"d", "i", "s", "t">>,
               <<"b", "u", "i", "l", "d">>,
               <<"c", "o", "v", "e", "r", "a", "g", "e">> }

\* /\.(ts|tsx|js|jsx)$/.test(entry.name), the content could be read, and
\* imports.some(imp => imp.includes(targetBaseName))
IsImporter(tree, f, targetBaseName) ==
    /\ IsScriptFile(EntryName(tree, f))
    /\ tree.files[f].readable
    /\ \E n \in 1..Len(tree.files[f].imports) :
          Includes(tree.files[f].imports[n], targetBaseName)

\* searchDirectory(dir), d being the directory at path dir: the paths it
\* pushes to importers; a directory that cannot be read pushes none
RECURSIVE SearchDirectory(_, _, _, _)
RECURSIVE SearchEntries(_, _, _, _, _)
SearchDirectory(tree, d, dir, targetBaseName) ==
    IF ~tree.dirs[d].readable THEN <<>>
    ELSE SearchEntries(tree, d, dir, 1, targetBaseName)

\* for (const entry of entries), from the k-th entry on
SearchEntries(tree, d, dir, k, targetBaseName) ==
    IF k > Len(DirEntries[d]) THEN <<>>
    ELSE LET e == DirEntries[d][k]
             fullPath == JoinPath(dir, EntryName(tree, e))
             found ==
                 IF e \in DirSlots
                 THEN IF ~SkippedDirectory(EntryName(tree, e))
                      THEN SearchDirectory(tree, e, fullPath, targetBaseName)
                      ELSE <<>>
                 ELSE IF IsImporter(tree, e, targetBaseName)
                      THEN <<fullPath>>
                      ELSE <<>>
         IN  found \o SearchEntries(tree, d, dir, k + 1, targetBaseName)

\* importers.slice(0, 5)
TopImporters(importers) ==
    SubSeq(importers, 1, IF Len(importers) < 5 THEN Len(importers) ELSE 5)

\* findWhoImports(targetFile, '.')
findWhoImports(targetFile, tree) ==
    TopImporters(SearchDirectory(tree, "d0", <<".">>, BaseNameNoExt(targetFile)))

----------------------------------------------------------------------------
(* The environment of one run of `gitp commit`                             *)

\* process.cwd(): "/w/app"
CurrentPaths == { <<"/", "w", "/", "a", "p", "p">> }

\* the credentials record loaded at start-up; "" stands for an absent field
CredentialsSet ==
    [ provider : {"", "openai"},
      model    : {"", "gpt"},
      apiKey   : {"", "key"},
      \* set by set-default-ticket: absent or "D-1"
      defaultTicket : { EmptyStr, <<"D", "-", "1">> },
      \* [] or [{ path: "/w/app", ticket: "ZZ-9" }]
      defaultTicketFor :
          { <<>>,
            << [path   |-> <<"/", "w", "/", "a", "p", "p">>,
                ticket |-> <<"Z", "Z", "-", "9">>] >> },
      \* [] or [{ path: "^/w/.pp$" }]
      useConventionalCommitsIn :
          { <<>>, << [path |-> <<"^", "/", "w", "/", ".", "p", "p", "$">>] >> } ]

\* what `git diff --cached` may print: nothing, or one changed file
Diffs ==
    { EmptyStr,
      <<"d", "i", "f", "f", " ", "-", "-", "g", "i", "t", " ",
        "a", "/", "x", ".", "j", "s", " ", "b", "/", "x", ".", "j", "s",
        "\n", "+", "1">> }

\* what `git rev-parse --abbrev-ref HEAD` may print: "main", "feature/AB-12"
Branches ==
    { <<"m", "a", "i", "n">>,
      <<"f", "e", "a", "t", "u", "r", "e", "/", "A", "B", "-", "1", "2">> }

\* the non-empty answers the user may type at the prompt: "shorter"
Feedbacks == { <<"s", "h", "o", "r", "t", "e", "r">> }

\* the raw text the provider returns to the k-th request when it answers
\* with both labelled lines:
\*   "COMMIT_MESSAGE: fix: m<k>\n  COMMIT_DESCRIPTION: d<k>"
LabelledResponse(k) ==
    CommitMessagePrefix \o <<" ", "f", "i", "x", ":", " ", "m">> \o NumStr(k)
        \o <<"\n", " ", " ">>
        \o CommitDescriptionPrefix \o <<" ", "d">> \o NumStr(k)

\* a response without any labelled line: "Sorry"
UnlabelledResponse == <<"S", "o", "r", "r", "y">>

Responses(k) == { LabelledResponse(k), UnlabelledResponse }

----------------------------------------------------------------------------
(* State                                                                   *)

VARIABLES
    flags,                  \* the flags given on the command line
    credentials,            \* loadCredentials('gitp')
    currentPath,            \* process.cwd()
    pc,                     \* position of commitCommand
    isGitRepo,              \* const isGitRepo: "unknown" until awaited
    diff,                   \* const diff
    branch,                 \* const branch; the empty text stands for null
    ticket,                 \* const ticket
    userSatisfied,
    finalCommitMessage,
    finalCommitDescription,
    attemptCount,
    history,
    commitMessage,          \* the pair returned by the latest generateCommit
    commitDescription,
    calls,                  \* how often each collaborator has been called
    commits,                \* the arguments of the git.commit calls, in order
    outcome,                \* how the command ended
    warned,                 \* 'Proceeding with the last generated ...' logged
    fnArgs,                 \* the arguments of a helper function called alone
    fnResult,               \* and what it returned
    execs,                  \* add-alias: the aliases `git config` was run for
    logged                  \* the messages a configuration command logged

vars ==
    << flags, credentials, currentPath, pc, isGitRepo, diff, branch, ticket,
       userSatisfied,
       finalCommitMessage, finalCommitDescription, attemptCount, history,
       commitMessage, commitDescription, calls, commits, outcome, warned,
       fnArgs, fnResult, execs, logged >>

\* the options object commander hands to the action, from the declarations
\*   .option('--dry-run', ..., false)   .option('--no-verify', ..., false)
\*   .option('--add', ..., false)       .option('-y', ..., false)
\*   .option('--smart', ..., false)
\* A negated option stores `false` under the positive name when given; its
\* declared default here is `false` as well.
VerifyDefault == FALSE

ParseOptions(f) ==
    [ dryRun |-> f.dryRun,
      verify |-> IF f.noVerify THEN FALSE ELSE VerifyDefault,
      add    |-> f.add,
      y      |-> f.y,
      smart  |-> f.smart ]

cmd == ParseOptions(flags)

\* no helper function is being called on its own
NoCall == [fn |-> "none"]

Init ==
    /\ flags \in [dryRun : BOOLEAN, noVerify : BOOLEAN, add : BOOLEAN,
                  y : BOOLEAN, smart : BOOLEAN]
    /\ credentials \in CredentialsSet
    /\ currentPath \in CurrentPaths
    /\ pc = "checkIsRepo"
    /\ isGitRepo = "unknown"
    /\ diff = EmptyStr
    /\ branch = EmptyStr
    /\ ticket = EmptyStr
    /\ userSatisfied = FALSE
    /\ finalCommitMessage = EmptyStr
    /\ finalCommitDescription = EmptyStr
    /\ attemptCount = 0
    /\ history = <<>>
    /\ commitMessage = EmptyStr
    /\ commitDescription = EmptyStr
    /\ calls = [add |-> 0, generate |-> 0, smart |-> 0, query |-> 0,
                queryFailed |-> 0, prompt |-> 0]
    /\ commits = <<>>
    /\ outcome = "running"
    /\ warned = FALSE
    /\ fnArgs = NoCall
    /\ fnResult = EmptyStr
    /\ execs = <<>>
    /\ logged = <<>>

loopVars ==
    << userSatisfied, finalCommitMessage, finalCommitDescription,
       attemptCount, history >>

\* what commitCommand only reads, and what it never touches
envVars ==
    << flags, credentials, currentPath, fnArgs, fnResult, execs, logged >>

\* `return` (or the catch block) of commitCommand
Finish(o) == pc' = "done" /\ outcome' = o

----------------------------------------------------------------------------
(* commitCommand, one action per awaited call                              *)

\* await git.checkIsRepo()
CheckIsRepo ==
    /\ pc = "checkIsRepo"
    /\ \E r \in {"repo", "notRepo", "throws"} :
          CASE r = "repo" ->
                  /\ isGitRepo' = "yes"
                  /\ pc' = IF cmd.add THEN "add" ELSE "diff"
                  /\ UNCHANGED outcome
            [] r = "notRepo" -> isGitRepo' = "no" /\ Finish("notRepo")
            [] OTHER -> UNCHANGED isGitRepo /\ Finish("gitError")
    /\ UNCHANGED << envVars, diff, branch, ticket, loopVars, commitMessage,
                    commitDescription, calls, commits, warned >>

\* if (cmd.add) await git.add('.')
GitAdd ==
    /\ pc = "add"
    /\ calls' = [calls EXCEPT !.add = @ + 1]
    /\ \E ok \in BOOLEAN :
          IF ok THEN pc' = "diff" /\ UNCHANGED outcome ELSE Finish("gitError")
    /\ UNCHANGED << envVars, isGitRepo, diff, branch, ticket, loopVars, commitMessage,
                    commitDescription, commits, warned >>

\* const diff = await git.diff(['--cached'])
GitDiff ==
    /\ pc = "diff"
    /\ \/ \E d \in Diffs : diff' = d /\ pc' = "revparse" /\ UNCHANGED outcome
       \/ Finish("gitError") /\ UNCHANGED diff
    /\ UNCHANGED << envVars, isGitRepo, branch, ticket, loopVars, commitMessage,
                    commitDescription, calls, commits, warned >>

\* the emptiness test on the diff left out
NoChanges_Unchecked == FALSE

\* if (!diff.length)
NoChanges == Len(diff) = 0

\* const branch = await git.revparse([...]).catch(() => null), then the
\* synchronous code down to the loop
RevParse ==
    /\ pc = "revparse"
    /\ \E b \in Branches \cup {EmptyStr} :
          /\ branch' = b
          /\ IF b = EmptyStr
             THEN Finish("noBranch") /\ UNCHANGED ticket
             ELSE /\ ticket' = extractTicketFromBranch(b, currentPath, credentials)
                  /\ IF NoChanges
                     THEN Finish("noDiff")
                     ELSE pc' = "loop" /\ UNCHANGED outcome
    /\ UNCHANGED << envVars, isGitRepo, diff, loopVars, commitMessage,
                    commitDescription, calls, commits, warned >>

\* the ceiling test off by one
LoopCondition_OffByOne == ~userSatisfied /\ attemptCount <= MaxAttempts

\* !userSatisfied && attemptCount < 10
LoopCondition == ~userSatisfied /\ attemptCount < MaxAttempts

\* while (!userSatisfied && attemptCount < 10)
LoopTest ==
    /\ pc = "loop"
    /\ pc' = IF LoopCondition THEN "generate" ELSE "afterLoop"
    /\ UNCHANGED << envVars, isGitRepo, diff, branch, ticket, loopVars, commitMessage,
                    commitDescription, calls, commits, outcome, warned >>

\* historyContext += `\nAttempt ${index + 1}:\n` + `Message: ...\n`
\*   + `Description: ...\n` + `User feedback: ...\n`
AttemptTranscript(attempt, index) ==
    <<"\n">> \o <<"A", "t", "t", "e", "m", "p", "t", " ">> \o NumStr(index + 1) \o <<":", "\n">>
       \o <<"M", "e", "s", "s", "a", "g", "e", ":", " ">> \o attempt.message \o <<"\n">>
       \o <<"D", "e", "s", "c", "r", "i", "p", "t", "i", "o", "n", ":", " ">> \o attempt.description \o <<"\n">>
       \o <<"U", "s", "e", "r", " ", "f", "e", "e", "d", "b", "a", "c", "k", ":", " ">> \o attempt.feedback \o <<"\n">>

\* '\n\n# Previous attempts and feedback:\n'
HistoryHeader ==
    <<"\n", "\n", "#", " ", "P", "r", "e", "v", "i", "o", "u", "s", " ", "a", "t", "t", "e", "m", "p", "t", "s", " ">>
       \o <<"a", "n", "d", " ", "f", "e", "e", "d", "b", "a", "c", "k", ":", "\n">>

\* history.forEach((attempt, index) => ...) for the first n attempts
RECURSIVE AttemptTranscripts(_, _)
AttemptTranscripts(h, n) ==
    IF n = 0 THEN EmptyStr
    ELSE AttemptTranscripts(h, n - 1) \o AttemptTranscript(h[n], n - 1)

\* the historyContext that generateCommit puts into the prompt
HistoryContext(h) ==
    IF Len(h) > 0 THEN HistoryHeader \o AttemptTranscripts(h, Len(h))
    ELSE EmptyStr

\* the check of the model left out
ConfigurationMissing_NoModelCheck ==
    credentials.provider = "" \/ credentials.apiKey = ""

\* if (!provider) ... if (!apiKey) ... if (!model) ...
ConfigurationMissing ==
    credentials.provider = "" \/ credentials.apiKey = "" \/ credentials.model = ""

\* generateCommit(diff, ticket, history, cmd.smart) up to its first await:
\* the three configuration checks return {} and the caller returns on
\* `!commitMessage`
GenerateCommit ==
    /\ pc = "generate"
    /\ calls' = [calls EXCEPT !.generate = @ + 1]
    /\ IF ConfigurationMissing
       THEN /\ Finish("missingConfig")
            /\ commitMessage' = EmptyStr
            /\ commitDescription' = EmptyStr
       ELSE /\ pc' = IF cmd.smart THEN "smart" ELSE "query"
            /\ UNCHANGED << outcome, commitMessage, commitDescription >>
    /\ UNCHANGED << envVars, isGitRepo, diff, branch, ticket, loopVars, commits, warned >>

\* await gatherSmartContext(diff, extractChangedFiles(diff))
GatherSmartContext ==
    /\ pc = "smart"
    /\ calls' = [calls EXCEPT !.smart = @ + 1]
    /\ pc' = "query"
    /\ UNCHANGED << envVars, isGitRepo, diff, branch, ticket, loopVars, commitMessage,
                    commitDescription, commits, outcome, warned >>

\* the failed request is issued once more before the error is propagated
QueryThrows_Retry ==
    IF calls.queryFailed < 1
    THEN pc' = "query" /\ UNCHANGED outcome
    ELSE Finish("providerError")

\* after a failed request the loop asks for a new generation
QueryThrows_Regenerate ==
    IF calls.queryFailed < 1
    THEN pc' = "generate" /\ UNCHANGED outcome
    ELSE Finish("providerError")

\* an error thrown by `await query(...)` is not caught in generateCommit nor
\* in the loop: control passes to the catch block of commitCommand
QueryThrows == Finish("providerError")

\* the emptiness test on the generated message left out
ResultEmpty_Ignored(message) == FALSE

\* if (!commitMessage) return;
ResultEmpty(message) == message = EmptyStr

\* the -y flag ignored
SkipConfirmation_Ignored == FALSE

\* if (cmd.y)
SkipConfirmation == cmd.y

\* await query({...}), the parsing of its result, and the loop body down to
\* the prompt
Query ==
    /\ pc = "query"
    /\ \/ \* the provider call throws
          /\ calls' = [calls EXCEPT !.query = @ + 1, !.queryFailed = @ + 1]
          /\ QueryThrows
          /\ UNCHANGED << loopVars, commitMessage, commitDescription >>
       \/ \E result \in Responses(calls.generate) :
             LET parsed == ParseResponse(result, ticket,
                               shouldUseConventionalCommits(currentPath, credentials))
             IN  /\ calls' = [calls EXCEPT !.query = @ + 1]
                 /\ commitMessage' = parsed.commitMessage
                 /\ commitDescription' = parsed.commitDescription
                 /\ IF ResultEmpty(parsed.commitMessage)
                    THEN Finish("emptyResult") /\ UNCHANGED loopVars
                    ELSE IF SkipConfirmation
                    THEN /\ finalCommitMessage' = parsed.commitMessage
                         /\ finalCommitDescription' = parsed.commitDescription
                         /\ userSatisfied' = TRUE
                         /\ pc' = "afterLoop"
                         /\ UNCHANGED << attemptCount, history, outcome >>
                    ELSE /\ pc' = "prompt"
                         /\ UNCHANGED << loopVars, outcome >>
    /\ UNCHANGED << envVars, isGitRepo, diff, branch, ticket, commits, warned >>

\* the pair of the first rejected attempt instead of the presented one
AcceptedPair_Stale ==
    IF history # <<>>
    THEN <<history[1].message, history[1].description>>
    ELSE <<commitMessage, commitDescription>>

\* finalCommitMessage = commitMessage;
\* finalCommitDescription = commitDescription;
AcceptedPair == <<commitMessage, commitDescription>>

\* the empty answer is taken for feedback
Accepted_Never(feedback) == FALSE

\* if (answers.feedback === '')
Accepted(feedback) == feedback = EmptyStr

\* the rejected attempt takes the place of the earlier ones
PushAttempt_Replace(h, feedback) ==
    << [message     |-> commitMessage,
        description |-> commitDescription,
        feedback    |-> feedback] >>

\* history.push({ message: commitMessage, description: commitDescription,
\*                feedback: answers.feedback })
PushAttempt(h, feedback) ==
    Append(h, [message     |-> commitMessage,
               description |-> commitDescription,
               feedback    |-> feedback])

\* await inquirer.prompt([...]) and the rest of the loop body
Prompt ==
    /\ pc = "prompt"
    /\ calls' = [calls EXCEPT !.prompt = @ + 1]
    /\ \/ \* the prompt is interrupted: caught by commitCommand
          Finish("promptError") /\ UNCHANGED loopVars
       \/ \E feedback \in Feedbacks \cup {EmptyStr} :
             /\ IF Accepted(feedback)
                THEN /\ finalCommitMessage' = AcceptedPair[1]
                     /\ finalCommitDescription' = AcceptedPair[2]
                     /\ userSatisfied' = TRUE
                     /\ UNCHANGED << attemptCount, history >>
                ELSE /\ history' = PushAttempt(history, feedback)
                     /\ attemptCount' = attemptCount + 1
                     /\ UNCHANGED << userSatisfied, finalCommitMessage,
                                     finalCommitDescription >>
             /\ pc' = "loop"
             /\ UNCHANGED outcome
    /\ UNCHANGED << envVars, isGitRepo, diff, branch, ticket, commitMessage,
                    commitDescription, commits, warned >>

\* the --dry-run flag ignored
DryRun_Ignored == FALSE

\* if (cmd.dryRun)
DryRun == cmd.dryRun

\* the code between the loop and git.commit
AfterLoop ==
    /\ pc = "afterLoop"
    /\ warned' = ~userSatisfied
    /\ IF finalCommitMessage = EmptyStr THEN Finish("noFinalMessage")
       ELSE IF DryRun THEN Finish("dryRun")
       ELSE pc' = "commit" /\ UNCHANGED outcome
    /\ UNCHANGED << envVars, isGitRepo, diff, branch, ticket, loopVars, commitMessage,
                    commitDescription, calls, commits >>

\* let commitArgs = `${finalCommitMessage}\n\n${finalCommitDescription}`
\* (+ ' --no-verify' if cmd.verify)
CommitArgs ==
    finalCommitMessage \o <<"\n", "\n">> \o finalCommitDescription
        \o (IF cmd.verify THEN NoVerifySuffix ELSE EmptyStr)

\* the options git.commit is called with: it is given the one argument
\* commitArgs, the message, and no options
CommitOptions == {}

\* a failed commit is attempted a second time
GitCommit_Retry ==
    /\ pc = "commit"
    /\ commits' = Append(commits, CommitArgs)
    /\ \E ok \in BOOLEAN :
          IF ok \/ Len(commits) >= 1
          THEN Finish(IF ok THEN "committed" ELSE "commitError")
          ELSE pc' = "commit" /\ UNCHANGED outcome
    /\ UNCHANGED << envVars, isGitRepo, diff, branch, ticket, loopVars,
                    commitMessage, commitDescription, calls, warned >>

\* await git.commit(commitArgs)
GitCommit ==
    /\ pc = "commit"
    /\ commits' = Append(commits, CommitArgs)
    /\ \E ok \in BOOLEAN : Finish(IF ok THEN "committed" ELSE "commitError")
    /\ UNCHANGED << envVars, isGitRepo, diff, branch, ticket, loopVars, commitMessage,
                    commitDescription, calls, warned >>

Next ==
    \/ CheckIsRepo
    \/ GitAdd
    \/ GitDiff
    \/ RevParse
    \/ LoopTest
    \/ GenerateCommit
    \/ GatherSmartContext
    \/ Query
    \/ Prompt
    \/ AfterLoop
    \/ GitCommit

Spec == Init /\ [][Next]_vars

\* every awaited call returns or throws
FairSpec == Spec /\ WF_vars(Next)

----------------------------------------------------------------------------
(* Properties of the refinement loop                                       *)

\* the pair generateCommit returns for the k-th labelled response of this run
GeneratedPair(k) ==
    ParseResponse(LabelledResponse(k), ticket,
                  shouldUseConventionalCommits(currentPath, credentials))

\* `${message}\n\n${description}`
CommitText(message, description) == message \o <<"\n", "\n">> \o description

\* C1: without -y and without --dry-run, once the user has rejected 10
\* generated pairs in a row the command ends having invoked git.commit with
\* the 10th generated message and description.
C1_CeilingCommitsLastPair ==
    (pc = "done" /\ ~flags.y /\ ~flags.dryRun /\ Len(history) = 10)
        => commits = << CommitText(GeneratedPair(10).commitMessage,
                                   GeneratedPair(10).commitDescription) >>

\* C2: whatever the user answers, generateCommit is called at most 10 times
\* in one run, and the run terminates when every awaited call returns.
C2_AtMostTenGenerations ==
    [](calls.generate <= 10) /\ <>(pc = "done")

\* C2 witness: a run that used all 10 generations and ended
C2_Witness == pc = "done" /\ calls.generate = 10 /\ attemptCount = 10

\* C3: when the user accepts with empty feedback and --dry-run is off,
\* git.commit is invoked exactly once, with '<message>\n\n<description>' of
\* the pair generated in that very cycle.
C3_AcceptCommitsPresentedPair ==
    (pc = "done" /\ userSatisfied /\ ~flags.y /\ ~flags.dryRun)
        => /\ calls.generate = attemptCount + 1
           /\ commits = << CommitText(GeneratedPair(attemptCount + 1).commitMessage,
                                      GeneratedPair(attemptCount + 1).commitDescription) >>

\* C3 witness: a pair accepted after two earlier pairs were rejected
C3_Witness ==
    /\ pc = "done" /\ userSatisfied /\ ~flags.y /\ ~flags.dryRun
    /\ attemptCount = 2
    /\ Len(commits) = 1

\* C4: with -y the prompt is never issued and at most one generation is
\* requested; when that generation yields a non-empty result it is the only
\* one and its pair is the final pair.
C4_YesAcceptsFirstPair ==
    flags.y =>
        /\ calls.prompt = 0
        /\ calls.generate <= 1
        /\ calls.query <= 1
        /\ commitMessage # EmptyStr =>
              /\ calls.generate = 1
              /\ userSatisfied
              /\ finalCommitMessage = GeneratedPair(1).commitMessage
              /\ finalCommitDescription = GeneratedPair(1).commitDescription

\* C4 witness: a run with -y that committed its first generated pair
C4_Witness ==
    /\ flags.y /\ pc = "done" /\ outcome = "committed"
    /\ calls.generate = 1
    /\ commits = << CommitText(GeneratedPair(1).commitMessage,
                               GeneratedPair(1).commitDescription) >>

\* C5: in dry-run mode git.commit is never invoked.
C5_DryRunNeverCommits == flags.dryRun => commits = <<>>

\* C5 witness: a dry run that ended by acceptance after a rejection
C5_Witness ==
    /\ flags.dryRun /\ pc = "done" /\ outcome = "dryRun"
    /\ userSatisfied /\ attemptCount >= 1

\* C6: in dry-run mode no mutating git operation is performed: neither
\* git.add nor git.commit is called, also when --add is given.
C6_DryRunNoGitMutation ==
    flags.dryRun => calls.add = 0 /\ commits = <<>>

\* C7: git.commit is invoked at most once, only after the loop has
\* terminated, and never in a run that aborted (not a repository, no branch,
\* empty diff, missing configuration, provider failure, empty result).
C7_CommitOnceAfterLoop ==
    /\ Len(commits) <= 1
    /\ commits # <<>> =>
          /\ pc = "done"
          /\ userSatisfied \/ attemptCount >= 10
    /\ outcome \in {"notRepo", "noBranch", "noDiff", "missingConfig",
                    "providerError", "emptyResult"} => commits = <<>>

\* C7 witness: a run that committed once after the loop ended by acceptance
C7_Witness ==
    /\ pc = "done" /\ Len(commits) = 1 /\ userSatisfied /\ attemptCount >= 1

\* C8: when the directory is not a repository, or the branch name cannot be
\* resolved, or the staged diff is empty, the command ends without a call of
\* generateCommit, without a prompt and without a commit.
C8_CollaboratorAbort ==
    ( \/ isGitRepo = "no"
      \/ /\ pc \notin {"checkIsRepo", "add", "diff", "revparse"}
         /\ outcome # "gitError"
         /\ (branch = EmptyStr \/ diff = EmptyStr) )
        => /\ pc = "done"
           /\ calls.generate = 0
           /\ calls.query = 0
           /\ calls.prompt = 0
           /\ commits = <<>>

\* C8 witness: nothing staged even though --add was given
C8_Witness ==
    /\ pc = "done" /\ outcome = "noDiff" /\ flags.add
    /\ branch # EmptyStr /\ diff = EmptyStr

\* C9: when provider, apiKey or model is missing the provider is never
\* queried, no smart context is gathered, the user is never prompted,
\* nothing is committed and generation is not attempted again.
C9_MissingConfiguration ==
    (credentials.provider = "" \/ credentials.apiKey = "" \/ credentials.model = "")
        => /\ calls.query = 0
           /\ calls.smart = 0
           /\ calls.prompt = 0
           /\ calls.generate <= 1
           /\ commits = <<>>

\* C9 witness: only the model is missing, --smart given, the command aborted
C9_Witness ==
    /\ pc = "done" /\ outcome = "missingConfig" /\ flags.smart
    /\ credentials.provider # "" /\ credentials.apiKey # ""
    /\ credentials.model = ""
    /\ calls.generate = 1

\* C10: once a provider query has failed, in whichever cycle, the command
\* has ended: the query is not repeated, no prompt follows and nothing is
\* committed.
C10_ProviderFailureAborts ==
    calls.queryFailed >= 1 =>
        /\ pc = "done"
        /\ outcome = "providerError"
        /\ calls.queryFailed = 1
        /\ calls.query = calls.generate
        /\ calls.prompt = calls.query - 1
        /\ commits = <<>>

\* C10 witness: the query of the third cycle failed
C10_Witness ==
    /\ calls.queryFailed = 1 /\ calls.query = 3 /\ calls.prompt = 2
    /\ pc = "done"

\* C12: a generation that yields an empty commitMessage, in the first or in
\* a later cycle, ends the command at once: the empty pair is never
\* presented or accepted, no prompt and no generation follows it, and
\* nothing is committed.
C12_EmptyResultAborts ==
    /\ pc \in {"prompt", "afterLoop", "commit"} => commitMessage # EmptyStr
    /\ outcome \in {"emptyResult", "missingConfig"} =>
          /\ pc = "done"
          /\ commitMessage = EmptyStr
          /\ calls.prompt = calls.generate - 1
          /\ finalCommitMessage = EmptyStr
          /\ commits = <<>>

\* C12 witness: the third generation of a run came back without a message
C12_Witness ==
    /\ pc = "done" /\ outcome = "emptyResult"
    /\ calls.generate = 3 /\ attemptCount = 2 /\ calls.prompt = 2

----------------------------------------------------------------------------
(* The helper functions called on their own                                *)
(*                                                                         *)
(* FnSpec applies one function of the program to one input: Init draws the *)
(* input (and the configuration and working directory the function reads), *)
(* the action of the function stores what it returns in fnResult.          *)

\* longest text enumerated exhaustively as the text of a response line
MaxTextLen == 4

\* shortest alphabet with a word character, both parentheses, the colon and
\* white space
TextAlphabet == {"a", "(", ")", ":", " "}

\* every text over the alphabet of at most n characters
TextsUpTo(n) == UNION { [1..k -> TextAlphabet] : k \in 0..n }

\* longer texts a provider may put after COMMIT_MESSAGE:
\*   "fix: add x", "fix(ui): add x", "fix(ui):add x", "fix(a b):  a:b",
\*   "fix():add x", "fix(ui) add x", "Add login", "a_1: (x)", "fix(ui):"
LongMessages ==
    { <<"f", "i", "x", ":", " ", "a", "d", "d", " ", "x">>,
      <<"f", "i", "x", "(", "u", "i", ")", ":", " ", "a", "d", "d", " ", "x">>,
      <<"f", "i", "x", "(", "u", "i", ")", ":", "a", "d", "d", " ", "x">>,
      <<"f", "i", "x", "(", "a", " ", "b", ")", ":", " ", " ", "a", ":", "b">>,
      <<"f", "i", "x", "(", ")", ":", "a", "d", "d", " ", "x">>,
      <<"f", "i", "x", "(", "u", "i", ")", " ", "a", "d", "d", " ", "x">>,
      <<"A", "d", "d", " ", "l", "o", "g", "i", "n">>,
      <<"a", "_", "1", ":", " ", "(", "x", ")">>,
      <<"f", "i", "x", "(", "u", "i", ")", ":">> }

\* the texts of the description line: "", "why"
DescriptionTexts == { EmptyStr, <<"w", "h", "y">> }

\* the tickets handed to generateCommit: none, "X-1"
ParserTickets == { EmptyStr, <<"X", "-", "1">> }

\* the lines of a provider response: each is labelled as the message, as
\* the description, or not at all
ResponseShapes ==
    LET M(x) == [label |-> "message", text |-> x]
        D(x) == [label |-> "description", text |-> x]
        N    == [label |-> "none", text |-> <<"S", "o", "r", "r", "y">>]
        some == { <<"a", ":", "a">>, EmptyStr }
    IN  { <<M(x)>> : x \in TextsUpTo(MaxTextLen) \cup LongMessages }
        \cup { <<M(x), D(y)>> : x \in some, y \in DescriptionTexts }
        \cup { <<D(y), M(x)>> : x \in some, y \in DescriptionTexts }
        \cup { <<M(x), M(y)>> : x \in some, y \in LongMessages }
        \cup { <<D(y)>> : y \in DescriptionTexts }
        \cup { <<N>>, <<N, D(<<"w", "h", "y">>)>> }

\* the raw text of a response: "  <LABEL> <text>" per line, joined by "\n"
RECURSIVE RawResponse(_)
RawResponse(lines) ==
    IF lines = <<>> THEN EmptyStr
    ELSE LET l == lines[1]
             body == (CASE l.label = "message" -> CommitMessagePrefix \o <<" ">>
                        [] l.label = "description" -> CommitDescriptionPrefix \o <<" ">>
                        [] OTHER -> EmptyStr) \o l.text
         IN  <<" ", " ">> \o body
                 \o (IF Len(lines) > 1
                     THEN <<"\n">> \o RawResponse(Tail(lines)) ELSE EmptyStr)

\* configurations for the parser: complete without and with the
\* conventional-commits path "^/w/.pp$", and one without a model
ParserCredentials ==
    { c \in CredentialsSet :
         /\ c.defaultTicketFor = <<>>
         /\ c.defaultTicket = EmptyStr
         /\ c.provider # "" /\ c.apiKey # ""
         /\ c.model = "" => c.useConventionalCommitsIn = <<>> }

\* what generateCommit(diff, ticket, history, smartMode) returns when the
\* provider answers with `result`; {} is the pair of two absent fields
generateCommit(result, tkt, path, creds) ==
    IF creds.provider = "" \/ creds.apiKey = "" \/ creds.model = ""
    THEN [commitMessage |-> EmptyStr, commitDescription |-> EmptyStr]
    ELSE ParseResponse(result, tkt, shouldUseConventionalCommits(path, creds))

\* the state of the command's own variables while a function is called alone
FnIdle ==
    /\ flags = [dryRun |-> FALSE, noVerify |-> FALSE, add |-> FALSE,
                y |-> FALSE, smart |-> FALSE]
    /\ isGitRepo = "unknown"
    /\ diff = EmptyStr
    /\ branch = EmptyStr
    /\ ticket = EmptyStr
    /\ userSatisfied = FALSE
    /\ finalCommitMessage = EmptyStr
    /\ finalCommitDescription = EmptyStr
    /\ attemptCount = 0
    /\ history = <<>>
    /\ commitMessage = EmptyStr
    /\ commitDescription = EmptyStr
    /\ calls = [add |-> 0, generate |-> 0, smart |-> 0, query |-> 0,
                queryFailed |-> 0, prompt |-> 0]
    /\ commits = <<>>
    /\ outcome = "running"
    /\ warned = FALSE
    /\ execs = <<>>
    /\ logged = <<>>

\* the inputs of generateCommit
ParserInputs ==
    /\ credentials \in ParserCredentials
    /\ currentPath \in CurrentPaths
    /\ fnArgs \in [fn : {"generateCommit"}, lines : ResponseShapes,
                   ticket : ParserTickets]

\* longest defaultTicketFor list
MaxEntries == 2

\* branch names: [<lead>/]<prefix>/<token>[<tail>] and a few others
BranchNames ==
    LET leads    == { EmptyStr, <<"x", "/">>, <<"f", "e", "a", "t", "u", "r", "e", "/">> }
        prefixes == BranchPrefixes \cup { <<"f", "e", "a", "t">> }
        tokens   == { <<"A", "B", "-", "1", "2">>,
                      <<"A", "B">>,
                      <<"A", "B", "-">>,
                      <<"-", "1", "2">>,
                      <<"A", "1", "-", "2", "b">>,
                      <<"A", "_", "1", "-", "2">> }
        tails    == { EmptyStr, <<"-", "f", "i", "x">> }
    IN  { p \o <<"/">> \o k : p \in prefixes, k \in tokens }
        \cup { l \o <<"h", "o", "t", "f", "i", "x", "/", "C", "D", "-", "7">> \o e :
                   l \in leads, e \in tails }
        \cup { <<"m", "a", "i", "n">>,
               <<"A", "B", "-", "1", "2">>,
               \* "bugfix/AB-1/release/CD-2"
               <<"b", "u", "g", "f", "i", "x", "/", "A", "B", "-", "1", "/",
                 "r", "e", "l", "e", "a", "s", "e", "/", "C", "D", "-", "2">> }

\* defaultTicketFor entries: a path that occurs in the working directory
\* ("/w/app"), one that does not ("/other"), and a regular expression that
\* matches it without occurring in it ("^/w/.pp$"); tickets "ZZ-9", "YY-1"
TicketEntries ==
    [ path   : { <<"/", "w", "/", "a", "p", "p">>,
                 <<"/", "o", "t", "h", "e", "r">>,
                 <<"^", "/", "w", "/", ".", "p", "p", "$">> },
      ticket : { <<"Z", "Z", "-", "9">>, <<"Y", "Y", "-", "1">> } ]

\* the configurations extractTicketFromBranch reads
TicketCredentials ==
    [ provider : {"openai"},
      model    : {"gpt"},
      apiKey   : {"key"},
      defaultTicket : { EmptyStr, <<"D", "-", "1">> },
      defaultTicketFor : UNION { [1..n -> TicketEntries] : n \in 0..MaxEntries },
      useConventionalCommitsIn : { <<>> } ]

\* the inputs of extractTicketFromBranch
TicketInputs ==
    /\ credentials \in TicketCredentials
    /\ currentPath \in CurrentPaths
    /\ fnArgs \in [fn : {"extractTicketFromBranch"}, branchName : BranchNames]

\* the characters of configured conventional-commits paths: two literals,
\* the wildcard, the anchors, and "(" which, never closed, makes the
\* expression invalid
PatternAlphabet == {"a", "/", ".", "^", "$", "("}

PatternsUpTo(n) == UNION { [1..k -> PatternAlphabet] : k \in 0..n }

\* longer paths: "^/w/.pp$", "/w/app", "/other", "/w/a(b", "^/w/a(b$"
LongPatterns ==
    { <<"^", "/", "w", "/", ".", "p", "p", "$">>,
      <<"/", "w", "/", "a", "p", "p">>,
      <<"/", "o", "t", "h", "e", "r">>,
      <<"/", "w", "/", "a", "(", "b">>,
      <<"^", "/", "w", "/", "a", "(", "b", "$">> }

\* working directories: "/w/app", "/w/a(b", "/a", "a/a", "a(", "(/"
SelectorPaths ==
    { <<"/", "w", "/", "a", "p", "p">>,
      <<"/", "w", "/", "a", "(", "b">>,
      <<"/", "a">>,
      <<"a", "/", "a">>,
      <<"a", "(">>,
      <<"(", "/">> }

\* useConventionalCommitsIn: absent or empty, any one short path, or up to
\* MaxEntries of the longer ones
SelectorLists ==
    { <<>> }
    \cup { << [path |-> q] >> : q \in PatternsUpTo(MaxTextLen) }
    \cup UNION { [1..n -> [path : LongPatterns]] : n \in 1..MaxEntries }

\* the inputs of shouldUseConventionalCommits
SelectorInputs ==
    /\ credentials \in
          [ provider : {"openai"},
            model    : {"gpt"},
            apiKey   : {"key"},
            defaultTicket : { EmptyStr },
            defaultTicketFor : { <<>> },
            useConventionalCommitsIn : SelectorLists ]
    /\ currentPath \in SelectorPaths
    /\ fnArgs = [fn |-> "shouldUseConventionalCommits"]

\* most per-file sections in a diff
MaxSections == 3

\* the per-file sections of `git diff --cached`, with git's default a/ and
\* b/ prefixes: package-lock.json, yarn.lock, src/app.js, lib/x.js,
\* lib/yarn.lock and Cargo.lock (lock tells whether the file is a
\* dependency lock file), and a section for src/app.js whose header line is
\* cut short after the pre-change path
SectionKinds ==
    { [path |-> <<"p", "a", "c", "k", "a", "g", "e", "-", "l", "o", "c", "k", ".", "j",
                 "s", "o", "n">>,
       lock |-> TRUE, header |-> "full"],
      [path |-> <<"y", "a", "r", "n", ".", "l", "o", "c", "k">>,
       lock |-> TRUE, header |-> "full"],
      [path |-> <<"s", "r", "c", "/", "a", "p", "p", ".", "j", "s">>,
       lock |-> FALSE, header |-> "full"],
      [path |-> <<"l", "i", "b", "/", "x", ".", "j", "s">>,
       lock |-> FALSE, header |-> "full"],
      [path |-> <<"l", "i", "b", "/", "y", "a", "r", "n", ".", "l", "o", "c", "k">>,
       lock |-> TRUE, header |-> "full"],
      [path |-> <<"C", "a", "r", "g", "o", ".", "l", "o", "c", "k">>,
       lock |-> TRUE, header |-> "full"],
      [path |-> <<"s", "r", "c", "/", "a", "p", "p", ".", "j", "s">>,
       lock |-> FALSE, header |-> "truncated"] }

\* the lines of the section of kind s that is the k-th of the diff:
\* 'diff --git a/P b/P' (or 'diff --git a/P'), '+++ b/P', '+<k>'
SectionLines(s, k) ==
    << DiffGit \o <<" ", "a", "/">> \o s.path
          \o (IF s.header = "full" THEN <<" ", "b", "/">> \o s.path ELSE EmptyStr),
       <<"+", "+", "+", " ", "b", "/">> \o s.path,
       <<"+">> \o NumStr(k) >>

\* the lines of the diff described by args, each with the position of the
\* section it belongs to (0: before the first header); a diff that ends in
\* a line feed has one more, empty, line
RECURSIVE SectionsFrom(_, _)
SectionsFrom(sections, k) ==
    IF k > Len(sections) THEN <<>>
    ELSE [n \in 1..3 |-> [text |-> SectionLines(sections[k], k)[n], owner |-> k]]
         \o SectionsFrom(sections, k + 1)

DiffLines(args) ==
    LET head == IF args.preamble
                THEN << [text |-> <<"n", "o", "t", "e">>, owner |-> 0] >>
                ELSE <<>>
        base == head \o SectionsFrom(args.sections, 1)
        last == [text |-> EmptyStr, owner |-> Len(args.sections)]
    IN  IF base = <<>>
        THEN IF args.trailing THEN << last, last >> ELSE << last >>
        ELSE IF args.trailing THEN base \o << last >> ELSE base

\* the diff text
DiffText(args) ==
    LET lines == DiffLines(args)
    IN  Join([n \in 1..Len(lines) |-> lines[n].text])

\* the inputs of extractChangedFiles and filterLockFilesFromDiff
DiffInputs ==
    /\ credentials \in
          [ provider : {"openai"},
            model    : {"gpt"},
            apiKey   : {"key"},
            defaultTicket : { EmptyStr },
            defaultTicketFor : { <<>> },
            useConventionalCommitsIn : { <<>> } ]
    /\ currentPath \in CurrentPaths
    /\ fnArgs \in
          [ fn : {"extractChangedFiles", "filterLockFilesFromDiff"},
            sections : UNION { [1..n -> SectionKinds] : n \in 0..MaxSections },
            preamble : BOOLEAN,
            trailing : BOOLEAN ]

\* most changed files handed to gatherSmartContext
MaxFiles == 3

\* the changed files: src/App.tsx with a summary of 14 characters; gone.jsx,
\* which cannot be read or is empty; big.js, whose block alone has exactly
\* 50,000 characters, or one more; the style sheet src/App.css; Svc.java
\* without and with findings; bad.ts, on which the extraction raises an
\* error; README.md
ChangedFileKinds ==
    { [file |-> <<"s", "r", "c", "/", "A", "p", "p", ".", "t", "s", "x">>,
       content |-> "text", findings |-> 14, throws |-> FALSE],
      [file |-> <<"g", "o", "n", "e", ".", "j", "s", "x">>,
       content |-> "missing", findings |-> 0, throws |-> FALSE],
      [file |-> <<"g", "o", "n", "e", ".", "j", "s", "x">>,
       content |-> "empty", findings |-> 0, throws |-> FALSE],
      [file |-> <<"b", "i", "g", ".", "j", "s">>,
       content |-> "text", findings |-> MAX_CONTEXT_SIZE - 25, throws |-> FALSE],
      [file |-> <<"b", "i", "g", ".", "j", "s">>,
       content |-> "text", findings |-> MAX_CONTEXT_SIZE - 24, throws |-> FALSE],
      [file |-> <<"s", "r", "c", "/", "A", "p", "p", ".", "c", "s", "s">>,
       content |-> "text", findings |-> 0, throws |-> FALSE],
      [file |-> <<"S", "v", "c", ".", "j", "a", "v", "a">>,
       content |-> "text", findings |-> 0, throws |-> FALSE],
      [file |-> <<"S", "v", "c", ".", "j", "a", "v", "a">>,
       content |-> "text", findings |-> 9, throws |-> FALSE],
      [file |-> <<"b", "a", "d", ".", "t", "s">>,
       content |-> "text", findings |-> 3, throws |-> TRUE],
      [file |-> <<"R", "E", "A", "D", "M", "E", ".", "m", "d">>,
       content |-> "text", findings |-> 0, throws |-> FALSE] }

\* the inputs of gatherSmartContext
GatherInputs ==
    /\ credentials \in
          [ provider : {"openai"},
            model    : {"gpt"},
            apiKey   : {"key"},
            defaultTicket : { EmptyStr },
            defaultTicketFor : { <<>> },
            useConventionalCommitsIn : { <<>> } ]
    /\ currentPath \in CurrentPaths
    /\ fnArgs \in
          [ fn : {"gatherSmartContext"},
            changedFiles :
                UNION { [1..n -> ChangedFileKinds] : n \in 0..MaxFiles } ]

\* a file that imports './App', one that imports './Other', one that
\* imports './App' and cannot be read, and a file that is not a script
ImportingFile == [ext |-> <<".", "j", "s">>, readable |-> TRUE, imports |-> << <<".", "/", "A", "p", "p">> >>]

OtherFile == [ext |-> <<".", "j", "s">>, readable |-> TRUE, imports |-> << <<".", "/", "O", "t", "h", "e", "r">> >>]

UnreadableFile == [ext |-> <<".", "j", "s">>, readable |-> FALSE, imports |-> << <<".", "/", "A", "p", "p">> >>]

TextFile == [ext |-> <<".", "m", "d">>, readable |-> TRUE, imports |-> << <<".", "/", "A", "p", "p">> >>]

\* the project trees searched: every file imports the target or another
\* file, f5 may also be unreadable or no script; d1 is src (readable or
\* not) or node_modules, d2 is lib, dist, build or .git, d3 is test
\* (readable or not) or coverage; the search directory may be unreadable
ProjectTrees ==
    [ dirs :
        [ d0 : [name : { <<".">> }, readable : BOOLEAN],
          d1 : { [name |-> <<"s", "r", "c">>, readable |-> TRUE],
                 [name |-> <<"s", "r", "c">>, readable |-> FALSE],
                 [name |-> <<"n", "o", "d", "e", "_", "m", "o", "d", "u", "l", "e", "s">>, readable |-> TRUE] },
          d2 : [name : { <<"l", "i", "b">>, <<"d", "i", "s", "t">>, <<"b", "u", "i", "l", "d">>, <<".", "g", "i", "t">> },
                readable : {TRUE}],
          d3 : { [name |-> <<"t", "e", "s", "t">>, readable |-> TRUE],
                 [name |-> <<"t", "e", "s", "t">>, readable |-> FALSE],
                 [name |-> <<"c", "o", "v", "e", "r", "a", "g", "e">>, readable |-> TRUE] } ],
      files :
        [ f1 : {ImportingFile, OtherFile}, f2 : {ImportingFile, OtherFile},
          f3 : {ImportingFile, OtherFile}, f4 : {ImportingFile, OtherFile},
          f5 : {ImportingFile, OtherFile, UnreadableFile, TextFile},
          f6 : {ImportingFile, OtherFile}, f7 : {ImportingFile, OtherFile},
          f8 : {ImportingFile, OtherFile} ] ]

\* the inputs of findWhoImports: the target src/App.tsx and a project tree
ImporterInputs ==
    /\ credentials \in
          [ provider : {"openai"},
            model    : {"gpt"},
            apiKey   : {"key"},
            defaultTicket : { EmptyStr },
            defaultTicketFor : { <<>> },
            useConventionalCommitsIn : { <<>> } ]
    /\ currentPath \in CurrentPaths
    /\ fnArgs \in
          [ fn : {"findWhoImports"},
            targetFile : { <<"s", "r", "c", "/", "A", "p", "p", ".", "t", "s", "x">> },
            tree : ProjectTrees ]

FnInit ==
    /\ FnIdle
    /\ pc = "call"
    /\ fnResult = EmptyStr
    /\ \/ ParserInputs
       \/ TicketInputs
       \/ SelectorInputs
       \/ DiffInputs
       \/ GatherInputs
       \/ ImporterInputs

fnFrame ==
    << flags, credentials, currentPath, isGitRepo, diff, branch, ticket,
       userSatisfied, finalCommitMessage, finalCommitDescription,
       attemptCount, history, commitMessage, commitDescription, calls,
       commits, outcome, warned, fnArgs, execs, logged >>

\* generateCommit, from the provider's answer to the returned pair
CallGenerateCommit ==
    /\ pc = "call"
    /\ fnArgs.fn = "generateCommit"
    /\ fnResult' = generateCommit(RawResponse(fnArgs.lines), fnArgs.ticket,
                                  currentPath, credentials)
    /\ pc' = "return"
    /\ UNCHANGED fnFrame

\* const ticket = extractTicketFromBranch(branch)
CallExtractTicketFromBranch ==
    /\ pc = "call"
    /\ fnArgs.fn = "extractTicketFromBranch"
    /\ fnResult' = extractTicketFromBranch(fnArgs.branchName, currentPath,
                                           credentials)
    /\ pc' = "return"
    /\ UNCHANGED fnFrame

\* const useConventionalCommits = shouldUseConventionalCommits()
CallShouldUseConventionalCommits ==
    /\ pc = "call"
    /\ fnArgs.fn = "shouldUseConventionalCommits"
    /\ fnResult' = shouldUseConventionalCommits(currentPath, credentials)
    /\ pc' = "return"
    /\ UNCHANGED fnFrame

\* const changedFiles = extractChangedFiles(diff)
CallExtractChangedFiles ==
    /\ pc = "call"
    /\ fnArgs.fn = "extractChangedFiles"
    /\ fnResult' = extractChangedFiles(DiffText(fnArgs))
    /\ pc' = "return"
    /\ UNCHANGED fnFrame

\* filterLockFilesFromDiff(diff)
CallFilterLockFilesFromDiff ==
    /\ pc = "call"
    /\ fnArgs.fn = "filterLockFilesFromDiff"
    /\ fnResult' = filterLockFilesFromDiff(DiffText(fnArgs))
    /\ pc' = "return"
    /\ UNCHANGED fnFrame

\* const smartContext = await gatherSmartContext(diff, changedFiles)
CallGatherSmartContext ==
    /\ pc = "call"
    /\ fnArgs.fn = "gatherSmartContext"
    /\ fnResult' = gatherSmartContext(fnArgs.changedFiles)
    /\ pc' = "return"
    /\ UNCHANGED fnFrame

\* fileContext.importedBy = await findWhoImports(file)
CallFindWhoImports ==
    /\ pc = "call"
    /\ fnArgs.fn = "findWhoImports"
    /\ fnResult' = findWhoImports(fnArgs.targetFile, fnArgs.tree)
    /\ pc' = "return"
    /\ UNCHANGED fnFrame

FnNext ==
    \/ CallGenerateCommit
    \/ CallExtractTicketFromBranch
    \/ CallShouldUseConventionalCommits
    \/ CallExtractChangedFiles
    \/ CallFilterLockFilesFromDiff
    \/ CallGatherSmartContext
    \/ CallFindWhoImports

FnSpec == FnInit /\ [][FnNext]_vars

----------------------------------------------------------------------------
(* The configuration commands and add-alias                                *)
(*                                                                         *)
(* Each invocation of gitp loads the saved configuration, runs one         *)
(* command and exits: `credentials` is the saved configuration, fnArgs     *)
(* the command line of the latest invocation, pc is "shell" between        *)
(* invocations.                                                            *)

\* the paths and tickets given on the command line
CliPaths ==
    { <<"/", "w", "/", "a", "p", "p">>,
      <<"/", "o", "t", "h", "e", "r">>,
      <<"^", "/", "w", "/", ".", "p", "p", "$">> }

CliTickets == { <<"Z", "Z", "-", "9">>, <<"Y", "Y", "-", "1">> }

\* no two entries of the list have the same path
DistinctPaths(list) ==
    \A i, j \in 1..Len(list) : list[i].path = list[j].path => i = j

\* current.find((item) => item.path === path)
HasPath(current, path) == \E k \in 1..Len(current) : current[k].path = path

\* the entry is added whether or not the path is there
WithTicketFor_Append(current, path, tkt) ==
    Append(current, [path |-> path, ticket |-> tkt])

\* `final` of set-default-ticket-for
WithTicketFor(current, path, tkt) ==
    IF HasPath(current, path)
    THEN [k \in 1..Len(current) |->
             IF current[k].path = path
             THEN [path |-> path, ticket |-> tkt]
             ELSE current[k]]
    ELSE Append(current, [path |-> path, ticket |-> tkt])

\* current.filter((item) => item.path !== path)
WithoutPath(current, path) ==
    LET Other(item) == item.path # path
    IN  SelectSeq(current, Other)

\* the saved configurations the commands start from: lists of up to
\* MaxEntries entries with distinct paths
CliCredentials ==
    [ provider : {"openai"},
      model    : {"gpt"},
      apiKey   : {"key"},
      defaultTicket : { EmptyStr, <<"D", "-", "1">> },
      defaultTicketFor :
          { l \in UNION { [1..n -> [path : CliPaths, ticket : CliTickets]] :
                             n \in 0..MaxEntries } : DistinctPaths(l) },
      useConventionalCommitsIn :
          { l \in UNION { [1..n -> [path : CliPaths]] : n \in 0..MaxEntries } :
               DistinctPaths(l) } ]

CliInit ==
    /\ FnIdle
    /\ pc = "shell"
    /\ credentials \in CliCredentials
    /\ currentPath \in CurrentPaths
    /\ fnArgs = NoCall
    /\ fnResult = EmptyStr

cliFrame ==
    << flags, currentPath, isGitRepo, diff, branch, ticket, userSatisfied,
       finalCommitMessage, finalCommitDescription, attemptCount, history,
       commitMessage, commitDescription, calls, commits, warned, fnResult >>

\* saveCredentials('gitp', { ...credentials, [field]: final })
SaveCredentials(field, final) ==
    /\ credentials' = [credentials EXCEPT ![field] = final]
    /\ outcome' = "saved"

\* gitp set-default-ticket-for <path> <ticket>
SetDefaultTicketFor ==
    /\ pc = "shell"
    /\ \E path \in CliPaths, tk \in CliTickets :
          /\ fnArgs' = [fn |-> "set-default-ticket-for", path |-> path,
                        ticket |-> tk]
          /\ SaveCredentials("defaultTicketFor",
                 WithTicketFor(credentials.defaultTicketFor, path, tk))
    /\ logged' = <<>>
    /\ execs' = <<>>
    /\ UNCHANGED << pc, cliFrame >>

\* gitp set-conventional-commits-for <path>
SetConventionalCommitsFor ==
    /\ pc = "shell"
    /\ \E path \in CliPaths :
          /\ fnArgs' = [fn |-> "set-conventional-commits-for", path |-> path]
          /\ IF HasPath(credentials.useConventionalCommitsIn, path)
             THEN /\ logged' = <<"Path already configured">>
                  /\ outcome' = "unchanged"
                  /\ UNCHANGED credentials
             ELSE /\ SaveCredentials("useConventionalCommitsIn",
                         Append(credentials.useConventionalCommitsIn,
                                [path |-> path]))
                  /\ logged' = <<"Path added">>
    /\ execs' = <<>>
    /\ UNCHANGED << pc, cliFrame >>

\* gitp remove-conventional-commits-for <path>
RemoveConventionalCommitsFor ==
    /\ pc = "shell"
    /\ \E path \in CliPaths :
          LET current == credentials.useConventionalCommitsIn
              final   == WithoutPath(current, path)
          IN  /\ fnArgs' = [fn |-> "remove-conventional-commits-for",
                            path |-> path]
              /\ IF Len(final) = Len(current)
                 THEN /\ logged' = <<"Path not found">>
                      /\ outcome' = "unchanged"
                      /\ UNCHANGED credentials
                 ELSE /\ SaveCredentials("useConventionalCommitsIn", final)
                      /\ logged' = <<"Path removed">>
    /\ execs' = <<>>
    /\ UNCHANGED << pc, cliFrame >>

\* the aliases of the four nested exec('git config --global alias.<name> ...')
AliasNames == <<"c", "ca", "cs", "cas">>

\* .finally(() => { logger('Aliases added to git config.'); logger(...) })
AliasFinally == <<"Aliases added to git config", "You can now use">>

\* gitp add-alias: the promise executor runs the first exec
AddAliasToGitConfig ==
    /\ pc = "shell"
    /\ fnArgs' = [fn |-> "add-alias"]
    /\ execs' = << AliasNames[1] >>
    /\ logged' = <<>>
    /\ outcome' = "running"
    /\ pc' = "alias"
    /\ UNCHANGED << credentials, cliFrame >>

\* the callback of the exec that is running: on an error the promise is
\* rejected, otherwise the next exec is run or the promise resolved; the
\* finally handler runs when the promise is settled
ExecCallback ==
    /\ pc = "alias"
    /\ \E error \in BOOLEAN :
          IF error
          THEN /\ outcome' = "rejected"
               /\ logged' = AliasFinally
               /\ pc' = "shell"
               /\ UNCHANGED execs
          ELSE IF Len(execs) < Len(AliasNames)
          THEN /\ execs' = Append(execs, AliasNames[Len(execs) + 1])
               /\ UNCHANGED << outcome, logged, pc >>
          ELSE /\ outcome' = "resolved"
               /\ logged' = AliasFinally
               /\ pc' = "shell"
               /\ UNCHANGED execs
    /\ UNCHANGED << credentials, fnArgs, cliFrame >>

CliNext ==
    \/ SetDefaultTicketFor
    \/ SetConventionalCommitsFor
    \/ RemoveConventionalCommitsFor
    \/ AddAliasToGitConfig
    \/ ExecCallback

CliSpec == CliInit /\ [][CliNext]_vars

----------------------------------------------------------------------------
(* Properties of generateCommit                                            *)

\* generateCommit has returned
ParserReturned == pc = "return" /\ fnArgs.fn = "generateCommit"

\* generateCommit has returned for a complete configuration and a response
\* of one line, the COMMIT_MESSAGE: line
OneMessageLine ==
    /\ ParserReturned
    /\ credentials.model # ""
    /\ Len(fnArgs.lines) = 1
    /\ fnArgs.lines[1].label = "message"

\* the message the provider generated in that line
GeneratedMessage == Trim(fnArgs.lines[1].text)

\* h is 'type:' or 'type(scope):', a type being a run of word characters
\* and a scope a non-empty text without ")"
IsTypeScopeToken(h) ==
    /\ Len(h) >= 2
    /\ h[Len(h)] = ":"
    /\ \E n \in 1..(Len(h) - 1) :
          /\ \A i \in 1..n : h[i] \in WordChars
          /\ \/ n = Len(h) - 1
             \/ /\ n <= Len(h) - 4
                /\ h[n + 1] = "("
                /\ h[Len(h) - 1] = ")"
                /\ \A i \in (n + 2)..(Len(h) - 2) : h[i] # ")"

\* m is the token m[1..c], white space, and the summary that starts at s
SplitsAt(m, c, s) ==
    /\ IsTypeScopeToken(SubSeq(m, 1, c))
    /\ \A i \in (c + 1)..(s - 1) : m[i] \in WhiteSpace
    /\ m[s] \notin WhiteSpace

\* m has the form 'type:' or 'type(scope):' followed by a non-empty summary
HasConventionalForm(m) ==
    \E c \in 1..Len(m) : \E s \in (c + 1)..Len(m) : SplitsAt(m, c, s)

ConventionalPolicy == credentials.useConventionalCommitsIn # <<>>

\* C11: whatever the provider response and the configuration, the pair
\* generateCommit returns has both fields non-empty or both fields empty.
C11_BothOrNeither ==
    ParserReturned =>
        (fnResult.commitMessage = EmptyStr <=> fnResult.commitDescription = EmptyStr)

\* C13: under the conventional policy and with a ticket T, a generated
\* message made of a token 'type:' or 'type(scope):' and a non-empty summary
\* S becomes: the token, one space, T, one space, S.
C13_TicketAfterTypeScope ==
    (OneMessageLine /\ ConventionalPolicy /\ fnArgs.ticket # EmptyStr) =>
        \A c \in 1..Len(GeneratedMessage) :
            \A s \in (c + 1)..Len(GeneratedMessage) :
                SplitsAt(GeneratedMessage, c, s) =>
                    fnResult.commitMessage =
                        SubSeq(GeneratedMessage, 1, c) \o <<" ">>
                            \o fnArgs.ticket \o <<" ">>
                            \o From(GeneratedMessage, s)

\* C13 witness: "fix(ui): add x" with X-1 gave "fix(ui): X-1 add x"
C13_Witness ==
    /\ OneMessageLine /\ ConventionalPolicy
    /\ fnArgs.ticket = <<"X", "-", "1">>
    /\ GeneratedMessage =
          <<"f", "i", "x", "(", "u", "i", ")", ":", " ", "a", "d", "d", " ", "x">>
    /\ fnResult.commitMessage =
          <<"f", "i", "x", "(", "u", "i", ")", ":", " ", "X", "-", "1", " ",
            "a", "d", "d", " ", "x">>

\* C14: apart from a conventional insertion (policy active, ticket present,
\* message of the type/scope form), the final message is 'T: <message>' for
\* a ticket T and the generated message itself when there is no ticket.
C14_TicketPrefixOtherwise ==
    (/\ OneMessageLine
     /\ ~(/\ ConventionalPolicy
          /\ fnArgs.ticket # EmptyStr
          /\ HasConventionalForm(GeneratedMessage))) =>
        fnResult.commitMessage =
            IF fnArgs.ticket # EmptyStr
            THEN fnArgs.ticket \o <<":", " ">> \o GeneratedMessage
            ELSE GeneratedMessage

\* C14 witness: under the conventional policy "fix(ui) add x" does not have
\* the form and became "X-1: fix(ui) add x"
C14_Witness ==
    /\ OneMessageLine /\ ConventionalPolicy
    /\ fnArgs.ticket = <<"X", "-", "1">>
    /\ GeneratedMessage =
          <<"f", "i", "x", "(", "u", "i", ")", " ", "a", "d", "d", " ", "x">>
    /\ fnResult.commitMessage =
          <<"X", "-", "1", ":", " ",
            "f", "i", "x", "(", "u", "i", ")", " ", "a", "d", "d", " ", "x">>

----------------------------------------------------------------------------
(* Properties of extractTicketFromBranch                                   *)

TicketReturned == pc = "return" /\ fnArgs.fn = "extractTicketFromBranch"

\* b[i..j-1] is '<prefix>/' and b[j..e] is a ticket token: letters and
\* digits, a hyphen, and all the digits that follow it
IsTicketAt(b, i, j, e) ==
    /\ \E p \in BranchPrefixes : SubSeq(b, i, j - 1) = p \o <<"/">>
    /\ \E h \in (j + 1)..(e - 1) :
          /\ b[h] = "-"
          /\ \A x \in j..(h - 1) : b[x] \in Alnum
          /\ \A x \in (h + 1)..e : b[x] \in Digits
    /\ e = Len(b) \/ b[e + 1] \notin Digits

\* the positions at which the prefix/ticket pattern occurs in b
TicketStarts(b) ==
    { i \in 1..Len(b) :
         \E j \in i..Len(b) : \E e \in j..Len(b) : IsTicketAt(b, i, j, e) }

\* text p occurs in text s
Occurs(p, s) ==
    \E a \in 0..Len(s) : \E z \in a..Len(s) : SubSeq(s, a + 1, z) = p

\* no configured path contains a character that is special in a regular
\* expression
PlainPaths(list) ==
    \A k \in 1..Len(list) : \A x \in 1..Len(list[k].path) :
        list[k].path[x] \notin {"^", "$", ".", "(", "["}

\* the ticket of the first entry of the list, in configured order, whose
\* path satisfies Hit; the empty text when there is none
FirstTicket(list, Hit(_)) ==
    IF \A k \in 1..Len(list) : ~Hit(list[k].path) THEN EmptyStr
    ELSE LET k == CHOOSE a \in 1..Len(list) :
                     /\ Hit(list[a].path)
                     /\ \A c \in 1..(a - 1) : ~Hit(list[c].path)
         IN  list[k].ticket

----------------------------------------------------------------------------
(* Properties of shouldUseConventionalCommits                              *)

SelectorReturned == pc = "return" /\ fnArgs.fn = "shouldUseConventionalCommits"

\* p is a regular expression: every "(" it opens is closed (none is, in
\* PatternAlphabet)
IsRegex(p) == \A k \in 1..Len(p) : p[k] # "("

\* the regular expression p matches s from position i: the k-th element of
\* p, preceded by n elements that consume a character, is an anchor that
\* holds at i + n or consumes the character s[i + n]
MatchesFrom(p, s, i) ==
    \A k \in 1..Len(p) :
        LET n == Cardinality({ c \in 1..(k - 1) : p[c] \notin {"^", "$"} })
        IN  CASE p[k] = "^" -> i + n = 1
              [] p[k] = "$" -> i + n = Len(s) + 1
              [] p[k] = "." -> i + n <= Len(s)
              [] OTHER      -> i + n <= Len(s) /\ s[i + n] = p[k]

\* the entry path p matches the working directory s
PathMatches(p, s) ==
    IF IsRegex(p) THEN \E i \in 1..(Len(s) + 1) : MatchesFrom(p, s, i)
    ELSE Occurs(p, s)

\* C17: the result is a boolean, true exactly when some configured
\* useConventionalCommitsIn entry matches the current path (as a regular
\* expression, or as a substring when it is not a valid one), so false
\* for the empty or absent list; an invalid expression raises nothing.
C17_TrueIffSomeEntryMatches ==
    SelectorReturned =>
        /\ fnResult \in BOOLEAN
        /\ fnResult <=>
              \E k \in 1..Len(credentials.useConventionalCommitsIn) :
                 PathMatches(credentials.useConventionalCommitsIn[k].path,
                             currentPath)

\* C17 witness: in "/w/a(b" the invalid expression "/w/a(b" selects the
\* policy by the substring test
C17_Witness ==
    /\ SelectorReturned
    /\ currentPath = <<"/", "w", "/", "a", "(", "b">>
    /\ credentials.useConventionalCommitsIn =
          << [path |-> <<"/", "o", "t", "h", "e", "r">>],
             [path |-> <<"/", "w", "/", "a", "(", "b">>] >>
    /\ fnResult = TRUE

----------------------------------------------------------------------------
(* Properties of extractChangedFiles and filterLockFilesFromDiff           *)

ExtractReturned == pc = "return" /\ fnArgs.fn = "extractChangedFiles"

FilterReturned == pc = "return" /\ fnArgs.fn = "filterLockFilesFromDiff"

\* the sections of the diff whose header names a post-change path that is
\* not a lock file, in order
ChangedSections ==
    LET Changed(s) == s.header = "full" /\ ~s.lock
    IN  SelectSeq(fnArgs.sections, Changed)

\* the texts of the lines of the diff that satisfy Keep, in order
LinesWhere(Keep(_)) ==
    LET kept == SelectSeq(DiffLines(fnArgs), Keep)
    IN  [n \in 1..Len(kept) |-> kept[n].text]

\* the line belongs to a section of a lock file
InLockSection(l) == l.owner > 0 /\ fnArgs.sections[l.owner].lock

ThreeSections ==
    { <<"p", "a", "c", "k", "a", "g", "e", "-", "l", "o", "c", "k", ".",
        "j", "s", "o", "n">>,
      <<"y", "a", "r", "n", ".", "l", "o", "c", "k">>,
      <<"s", "r", "c", "/", "a", "p", "p", ".", "j", "s">> }

\* C18: extractChangedFiles returns no path that isLockFile classifies as
\* a lock file, and nothing for the section of a lock file: one entry for
\* each section of another file, ending in that file's path; the text
\* filterLockFilesFromDiff returns has no header or hunk line of a section
\* of a lock file; for sections package-lock.json, yarn.lock and
\* src/app.js, extractChangedFiles returns src/app.js only.
C18_LockFilesExcluded ==
    /\ ExtractReturned =>
          /\ \A k \in 1..Len(fnResult) : ~isLockFile(fnResult[k])
          /\ Len(fnResult) = Len(ChangedSections)
          /\ \A k \in 1..Len(fnResult) :
                EndsWith(fnResult[k], ChangedSections[k].path)
          /\ ( /\ \A k \in 1..Len(fnArgs.sections) :
                     fnArgs.sections[k].header = "full"
               /\ { fnArgs.sections[k].path : k \in 1..Len(fnArgs.sections) }
                     = ThreeSections )
             => \A k \in 1..Len(fnResult) :
                   fnResult[k] = <<"s", "r", "c", "/", "a", "p", "p", ".", "j", "s">>
    /\ FilterReturned =>
          LET out == Split(fnResult)
          IN  \A n \in 1..Len(DiffLines(fnArgs)) :
                 LET l == DiffLines(fnArgs)[n]
                 IN  (InLockSection(l) /\ l.text # EmptyStr) =>
                        \A m \in 1..Len(out) : out[m] # l.text

\* C18 witness: the sections package-lock.json, yarn.lock, src/app.js give
\* the one changed file src/app.js
C18_Witness ==
    /\ ExtractReturned
    /\ Len(fnArgs.sections) = 3
    /\ \A k \in 1..3 : fnArgs.sections[k].header = "full"
    /\ fnArgs.sections[1].path =
          <<"p", "a", "c", "k", "a", "g", "e", "-", "l", "o", "c", "k", ".",
            "j", "s", "o", "n">>
    /\ fnArgs.sections[2].path = <<"y", "a", "r", "n", ".", "l", "o", "c", "k">>
    /\ fnArgs.sections[3].path = <<"s", "r", "c", "/", "a", "p", "p", ".", "j", "s">>
    /\ fnResult = << <<"s", "r", "c", "/", "a", "p", "p", ".", "j", "s">> >>

\* C19: the text filterLockFilesFromDiff returns is the lines of the diff,
\* in their order and unchanged, without the lines of the sections of lock
\* files: every line before the first header and every line of every other
\* section is kept.
C19_OtherLinesKept ==
    FilterReturned =>
        LET Kept(l) == ~InLockSection(l)
        IN  fnResult = Join(LinesWhere(Kept))

\* C19 witness: a leading line, then yarn.lock between src/app.js and
\* lib/x.js; the two sections that remain are joined and both still there
C19_Witness ==
    /\ FilterReturned
    /\ fnArgs.preamble
    /\ Len(fnArgs.sections) = 3
    /\ fnArgs.sections[1].path = <<"s", "r", "c", "/", "a", "p", "p", ".", "j", "s">>
    /\ fnArgs.sections[2].path = <<"y", "a", "r", "n", ".", "l", "o", "c", "k">>
    /\ fnArgs.sections[3].path = <<"l", "i", "b", "/", "x", ".", "j", "s">>
    /\ Len(Split(fnResult)) = 7
    /\ Split(fnResult)[7] = <<"+", "3">>

\* C20: for every header 'diff --git a/P b/P' whose path P is not a lock
\* file, extractChangedFiles yields exactly P, also when P contains "b/";
\* a header from which no path can be extracted yields nothing.
C20_ExactPostChangePath ==
    ExtractReturned =>
        fnResult = [k \in 1..Len(ChangedSections) |-> ChangedSections[k].path]

----------------------------------------------------------------------------
(* Properties of the history and of the order of the requests              *)

\* generateCommit is about to be called or has not returned yet
Requesting == pc \in {"generate", "smart", "query"}

\* the number k of that generation request
RequestNumber == IF pc = "generate" THEN calls.generate + 1 ELSE calls.generate

\* C23: at the k-th generation request the history holds the k-1 rejected
\* attempts, the i-th entry being the i-th generated message and description
\* with the feedback that rejected them; the prompt has the 'Previous
\* attempts and feedback' transcript exactly when k > 1, the transcript of
\* the earlier attempts followed by that of the latest; an accepted pair is
\* not in the history.
C23_HistoryIsRejectedAttempts ==
    /\ Requesting =>
          LET k == RequestNumber
          IN  /\ Len(history) = k - 1
              /\ \A i \in 1..(k - 1) :
                    /\ history[i].message = GeneratedPair(i).commitMessage
                    /\ history[i].description = GeneratedPair(i).commitDescription
                    /\ history[i].feedback \in Feedbacks
              /\ HistoryContext(history) # EmptyStr <=> k > 1
              /\ k > 1 =>
                    HistoryContext(history) =
                        (IF k = 2 THEN HistoryHeader
                         ELSE HistoryContext(SubSeq(history, 1, k - 2)))
                        \o AttemptTranscript(history[k - 1], k - 2)
    /\ userSatisfied =>
          /\ \A i \in 1..Len(history) :
                <<history[i].message, history[i].description>>
                    # <<finalCommitMessage, finalCommitDescription>>
          /\ Len(history) = IF cmd.y THEN 0 ELSE calls.prompt - 1

\* C23 witness: the third request is out, with two rejected attempts
C23_Witness ==
    /\ pc = "query"
    /\ calls.generate = 3
    /\ Len(history) = 2
    /\ StartsWith(HistoryContext(history), HistoryHeader)

\* a step that calls generateCommit is taken at the head of the loop body
\* and, unless it is the first, after the previous call has returned and the
\* prompt that followed it was answered with feedback
RequestIssuedInTurn ==
    calls.generate' # calls.generate =>
        /\ calls.generate' = calls.generate + 1
        /\ pc = "generate"
        /\ calls.generate >= 1 =>
              /\ calls.query = calls.generate
              /\ calls.prompt = calls.generate
              /\ Len(history) = calls.generate
              /\ history[Len(history)].feedback # EmptyStr
              /\ history[Len(history)].message = commitMessage

\* C25: a generation request is outstanding only while generateCommit is
\* being awaited, so there is never more than one; and a request after the
\* first is issued only when the previous one has returned and the user
\* has answered the prompt for the pair it produced with non-empty feedback.
C25_StrictlySequential ==
    /\ [](calls.generate - calls.query \in {0, 1})
    /\ [][RequestIssuedInTurn]_vars

\* C25 witness: the second request is out after one answered prompt
C25_Witness ==
    /\ pc = "query"
    /\ calls.generate = 2
    /\ calls.query = 1
    /\ calls.prompt = 1

\* the positions of commitCommand inside the while loop
LoopPositions == {"loop", "generate", "smart", "query", "prompt"}

\* a step taken inside the loop leaves the diff and the ticket as they are
LoopInputsKept ==
    pc \in LoopPositions => (diff' = diff /\ ticket' = ticket)

\* C27: the history has attemptCount entries, at most 10; and in the loop
\* the diff and the ticket do not change, the ticket being the one
\* extracted from the branch before the loop.
C27_HistoryCountAndFixedInputs ==
    /\ [](/\ Len(history) = attemptCount
          /\ attemptCount <= MaxAttempts
          /\ pc \in LoopPositions =>
                /\ ticket = extractTicketFromBranch(branch, currentPath, credentials)
                /\ diff \in Diffs /\ diff # EmptyStr)
    /\ [][LoopInputsKept]_vars

\* C27 witness: the tenth rejection has been counted
C27_Witness ==
    /\ pc = "loop"
    /\ attemptCount = MaxAttempts
    /\ Len(history) = MaxAttempts

\* C24: with --no-verify the commit is invoked with the no-verify option,
\* without it with hooks enabled; the message text is the same either way.
C24_NoVerifyPassedThrough ==
    commits # <<>> =>
        /\ flags.noVerify <=> "--no-verify" \in CommitOptions
        /\ commits[Len(commits)] =
              CommitText(finalCommitMessage, finalCommitDescription)

\* C29: a response whose COMMIT_MESSAGE: line has no text after the prefix
\* gives the empty result, with or without a ticket.
C29_BareMessageLineIsEmptyResult ==
    (OneMessageLine /\ GeneratedMessage = EmptyStr) =>
        fnResult.commitMessage = EmptyStr

----------------------------------------------------------------------------
(* Properties of gatherSmartContext                                        *)

GatherReturned == pc = "return" /\ fnArgs.fn = "gatherSmartContext"

\* the context assembled from the blocks, before it is cut
AssembledContext == Join(GatheredContexts(fnArgs.changedFiles))

\* C21: the text returned has at most 50,000 characters plus those of the
\* trim marker; it is the first 50,000 characters of the assembled context
\* followed by the marker when the assembled context has more than 50,000,
\* and the assembled context itself, without marker, when it has not.
C21_ContextBudget ==
    GatherReturned =>
        /\ Len(fnResult.context) <= 50000 + Len(TrimMarker)
        /\ IF Len(AssembledContext) > 50000
           THEN fnResult.context =
                    SubSeq(AssembledContext, 1, 50000) \o TrimMarker
           ELSE /\ fnResult.context = AssembledContext
                /\ ~EndsWith(fnResult.context, TrimMarker)

\* C21 witness: a block of exactly 50,000 characters is returned whole
C21_Witness ==
    /\ GatherReturned
    /\ Len(AssembledContext) = 50000
    /\ Len(fnResult.context) = 50000

\* the changed file is processed, read, and raises an error
Raises(f) ==
    /\ IsScriptFile(f.file) \/ IsJavaFile(f.file)
    /\ f.content = "text"
    /\ f.throws

\* the position of the first changed file that raises an error; one past
\* the last file when none does
FirstError ==
    LET files == fnArgs.changedFiles
        bad == { k \in 1..Len(files) : Raises(files[k]) }
    IN  IF bad = {} THEN Len(files) + 1
        ELSE CHOOSE k \in bad : \A j \in bad : k <= j

\* the blocks of the files before the first error that can be read and
\* have findings, in order
BlocksBeforeError ==
    LET files == SubSeq(fnArgs.changedFiles, 1, FirstError - 1)
        Contributes(f) ==
            /\ IsScriptFile(f.file) \/ IsJavaFile(f.file)
            /\ f.content = "text"
            /\ f.findings > 0
        kept == SelectSeq(files, Contributes)
    IN  [n \in 1..Len(kept) |-> ContextBlock(kept[n])]

\* C26: no error reaches the caller; a file that is missing or unreadable
\* contributes nothing and the other files still contribute their blocks;
\* when the extraction raises an error a warning is logged and the blocks
\* gathered before it are returned.
C26_NeverFatal ==
    GatherReturned =>
        /\ ~fnResult.threw
        /\ fnResult.warned <=> FirstError <= Len(fnArgs.changedFiles)
        /\ fnResult.context =
              TrimContext(Join(BlocksBeforeError
                  \o (IF FirstError <= Len(fnArgs.changedFiles) THEN <<>>
                      ELSE StyleContexts(fnArgs.changedFiles))))

\* C26 witness: gone.jsx cannot be read, src/App.tsx gives its block, the
\* extraction fails on bad.ts: the block of App.tsx is returned
C26_Witness ==
    /\ GatherReturned
    /\ Len(fnArgs.changedFiles) = 3
    /\ fnArgs.changedFiles[1].content = "missing"
    /\ fnArgs.changedFiles[2].findings = 14
    /\ fnArgs.changedFiles[3].throws
    /\ fnResult.warned
    /\ fnResult.context = ContextBlock(fnArgs.changedFiles[2])

----------------------------------------------------------------------------
(* Properties of findWhoImports                                            *)

ImportersReturned == pc = "return" /\ fnArgs.fn = "findWhoImports"

\* the files in the order in which a depth-first walk that follows the
\* order of the directory entries comes to them
WalkOrder == <<"f1", "f2", "f3", "f4", "f5", "f6", "f7", "f8">>

\* the directories above each file, from the search directory down
Ancestors ==
    [ f1 |-> <<"d0">>, f2 |-> <<"d0", "d1">>, f3 |-> <<"d0", "d1">>,
      f4 |-> <<"d0", "d1", "d2">>, f5 |-> <<"d0">>, f6 |-> <<"d0", "d3">>,
      f7 |-> <<"d0", "d3">>, f8 |-> <<"d0">> ]

ExcludedNames ==
    { <<"n", "o", "d", "e", "_", "m", "o", "d", "u", "l", "e", "s">>,
      <<".", "g", "i", "t">>, <<"d", "i", "s", "t">>,
      <<"b", "u", "i", "l", "d">>,
      <<"c", "o", "v", "e", "r", "a", "g", "e">> }

\* the path of file f from the search directory
PathOf(f) ==
    LET up  == Ancestors[f]
        dirs == [n \in 1..(Len(up) - 1) |->
                    fnArgs.tree.dirs[up[n + 1]].name \o <<"/">>]
        Concat[n \in 0..Len(dirs)] ==
            IF n = 0 THEN EmptyStr ELSE Concat[n - 1] \o dirs[n]
    IN  Concat[Len(dirs)] \o FileStem[f] \o fnArgs.tree.files[f].ext

\* f is a script with .ts, .tsx, .js or .jsx name whose content can be
\* read and has an import that names App, and the walk reaches it: every
\* directory above it can be read and none below the search directory has
\* an excluded name
Discovered(f) ==
    /\ fnArgs.tree.files[f].ext = <<".", "j", "s">>
    /\ fnArgs.tree.files[f].readable
    /\ fnArgs.tree.files[f].imports = << <<".", "/", "A", "p", "p">> >>
    /\ \A n \in 1..Len(Ancestors[f]) :
          /\ fnArgs.tree.dirs[Ancestors[f][n]].readable
          /\ n > 1 => fnArgs.tree.dirs[Ancestors[f][n]].name \notin ExcludedNames

\* the directory names in path p: the texts between its "/"
DirectoriesOf(p) ==
    { SubSeq(p, a, z) : a \in 1..Len(p), z \in 1..Len(p) } \cap
    { SubSeq(p, a, z - 1) : a \in { 1 } \cup { i + 1 : i \in { j \in 1..Len(p) : p[j] = "/" } },
                            z \in { j \in 1..Len(p) : p[j] = "/" } }

\* C22: the result is the first 5, or all when fewer, of the importing
\* script files in the order of the depth-first walk; none of its paths
\* passes through node_modules, .git, dist, build or coverage; and the walk
\* ends with a result for every tree, also when directories cannot be read.
C22_FirstFiveImporters ==
    ImportersReturned =>
        LET found == SelectSeq(WalkOrder, Discovered)
            n     == IF Len(found) < 5 THEN Len(found) ELSE 5
        IN  /\ Len(fnResult) <= 5
            /\ fnResult = [k \in 1..n |-> PathOf(found[k])]
            /\ \A k \in 1..Len(fnResult) :
                  DirectoriesOf(fnResult[k]) \cap ExcludedNames = {}

\* C22 witness: d2 is dist and src/dist/d.js is passed over; the other
\* seven files import the target, and the first five found are returned
C22_Witness ==
    /\ ImportersReturned
    /\ fnArgs.tree.dirs.d2.name = <<"d", "i", "s", "t">>
    /\ Len(SelectSeq(WalkOrder, Discovered)) = 7
    /\ fnResult =
          << <<"a", ".", "j", "s">>,
             <<"s", "r", "c", "/", "b", ".", "j", "s">>,
             <<"s", "r", "c", "/", "c", ".", "j", "s">>,
             <<"e", ".", "j", "s">>,
             <<"t", "e", "s", "t", "/", "g", ".", "j", "s">> >>

----------------------------------------------------------------------------
(* Properties of the configuration commands and of add-alias               *)

\* what a step of a configuration command does to the saved configuration
ConfigurationStep ==
    /\ \A field \in {"provider", "model", "apiKey", "defaultTicket"} :
          credentials'[field] = credentials[field]
    /\ (pc = "shell" /\ fnArgs'.fn = "set-default-ticket-for") =>
          LET old == credentials.defaultTicketFor
              new == credentials'.defaultTicketFor
              entry == [path |-> fnArgs'.path, ticket |-> fnArgs'.ticket]
          IN  /\ credentials'.useConventionalCommitsIn =
                    credentials.useConventionalCommitsIn
              /\ IF \E k \in 1..Len(old) : old[k].path = entry.path
                 THEN /\ Len(new) = Len(old)
                      /\ \A k \in 1..Len(old) :
                            new[k] = IF old[k].path = entry.path THEN entry
                                     ELSE old[k]
                 ELSE new = old \o <<entry>>
    /\ (pc = "shell" /\ fnArgs'.fn \in {"set-conventional-commits-for",
                                        "remove-conventional-commits-for"}) =>
          credentials'.defaultTicketFor = credentials.defaultTicketFor
    /\ pc = "alias" => credentials' = credentials

\* C28: from lists without two entries of the same path, no sequence of
\* set-conventional-commits-for, remove-conventional-commits-for and
\* set-default-ticket-for commands gives a list with two; on a path that is
\* there set-default-ticket-for replaces the ticket of that entry where it
\* stands; and every command leaves the other fields as they are.
C28_PathsStayDistinct ==
    /\ [](/\ DistinctPaths(credentials.defaultTicketFor)
          /\ DistinctPaths(credentials.useConventionalCommitsIn))
    /\ [][ConfigurationStep]_vars

\* C28 witness: set-default-ticket-for was run for the path of the first of
\* two entries, which now carries the ticket given
C28_Witness ==
    /\ pc = "shell"
    /\ fnArgs.fn = "set-default-ticket-for"
    /\ Len(credentials.defaultTicketFor) = 2
    /\ credentials.defaultTicketFor[1] =
          [path |-> fnArgs.path, ticket |-> fnArgs.ticket]
    /\ credentials.defaultTicketFor[2].ticket # fnArgs.ticket

\* C30: the aliases c, ca, cs, cas are configured in that order, nothing is
\* run after the first failure, and the 'Aliases added to git config'
\* message is logged only when all four were configured.
C30_SuccessOnlyWhenAllConfigured ==
    fnArgs.fn = "add-alias" =>
        /\ execs = SubSeq(AliasNames, 1, Len(execs))
        /\ outcome = "rejected" => pc = "shell"
        /\ (\E n \in 1..Len(logged) : logged[n] = "Aliases added to git config")
              => (outcome = "resolved" /\ execs = AliasNames)

====
